---- MODULE Spec2Model ----
(***************************************************************************)
(* The job-dispatch subsystem of smartheart: the in-process queue          *)
(* (memq.memQueue) and the Redis Streams queue (queue.RedisQueue), both    *)
(* implementing memq.JobQueue.  One behaviour runs one backend, chosen in  *)
(* Init.  The in-process backend shares the producer's *job.Job between    *)
(* the buffer, the map and the worker, so the map is modelled by its keys  *)
(* and the worker writes the producer's object field by field.  The stream *)
(* backend's cache holds the record as of each cache write: Enqueue's      *)
(* write of the producer's object, and processMessage's two writes, each   *)
(* taken in one step with the assignments to its local job before it.      *)
(***************************************************************************)
EXTENDS Naturals, Sequences, FiniteSets, TLC

\* ------------------------------------------------------------------ bounds
MaxJobs == 2
NumWorkers == 1
MaxGoroutines == 1
MaxStream == 1
Capacity == 1
MaxClock == 1
\* entries RetryDeadLetterJob may put back on the stream, and calls of it
MaxRetried == 1
MaxCalls == 1
\* buffer size, stream length and workers where the order of jobs is examined
OrderCapacity == 2
OrderStream == 2
OrderWorkers == 2

\* the retry ceiling of claimStuckJobs
MaxRetries == 3

JobIds == 1..MaxJobs
EntryIds == 1..(MaxStream + MaxRetried)
Workers == 1..NumWorkers
\* the goroutines claimStuckJobs starts with "go q.processMessage"
Gors == (NumWorkers + 1)..(NumWorkers + MaxGoroutines)
Procs == Workers \cup Gors

\* job identifiers: uuid.New() gives job j the identifier j, a producer that
\* sets the identifier itself uses SuppliedId(j); 0 is uuid.Nil
Ids == 1..(2 * MaxJobs)
SuppliedId(j) == MaxJobs + j

\* the job an identifier belongs to
JobIx(id) == ((id - 1) % MaxJobs) + 1

\* ------------------------------------------------------------- job record
NoJob == [none |-> TRUE]

\* payload bytes the producer of job j puts in the record
PayloadOf(j) == <<"payload", j>>

\* &job.Job{Type: ..., Payload: ...}: the record a producer hands to Enqueue
NewJob(j) ==
  [id |-> 0, payload |-> PayloadOf(j), status |-> "", error |-> "",
   enqueued |-> <<>>, started |-> <<>>, finished |-> <<>>]

\* json.Marshal of a job.Job: []byte as base64, omitempty fields left out
Marshal(r) ==
  LET always == {"id", "payload", "status", "enqueued_at"}
      opt == (IF r.error # "" THEN {"error"} ELSE {})
             \cup (IF r.started # <<>> THEN {"started_at"} ELSE {})
             \cup (IF r.finished # <<>> THEN {"finished_at"} ELSE {})
  IN [k \in always \cup opt |->
        CASE k = "id" -> r.id
          [] k = "payload" -> <<"b64", r.payload>>
          [] k = "status" -> r.status
          [] k = "error" -> r.error
          [] k = "enqueued_at" -> r.enqueued
          [] k = "started_at" -> r.started
          [] k = "finished_at" -> r.finished]

\* a decoder that leaves the payload in its base64 form
Unmarshal_Raw(d) ==
  [id |-> d["id"],
   payload |-> d["payload"],
   status |-> d["status"],
   error |-> IF "error" \in DOMAIN d THEN d["error"] ELSE "",
   enqueued |-> d["enqueued_at"],
   started |-> IF "started_at" \in DOMAIN d THEN d["started_at"] ELSE <<>>,
   finished |-> IF "finished_at" \in DOMAIN d THEN d["finished_at"] ELSE <<>>]

\* json.Unmarshal into a zero job.Job
Unmarshal(d) ==
  [id |-> d["id"],
   payload |-> d["payload"][2],
   status |-> d["status"],
   error |-> IF "error" \in DOMAIN d THEN d["error"] ELSE "",
   enqueued |-> d["enqueued_at"],
   started |-> IF "started_at" \in DOMAIN d THEN d["started_at"] ELSE <<>>,
   finished |-> IF "finished_at" \in DOMAIN d THEN d["finished_at"] ELSE <<>>]

\* ------------------------------------------------------------------ state
VARIABLES
  backend,   \* "mem" or "redis"
  clock,     \* what time.Now() returns
  obj,       \* the producers' job objects, by job
  pstate,    \* where each producer's Enqueue call stands
  ctxDone,   \* the context given to StartConsumers is cancelled
  nstarted,  \* n of StartConsumers, 0 before the call
  closing,   \* Close has been called
  closed,    \* Close has returned
  buf,       \* memQueue.buf
  mjobs,     \* keys of memQueue.jobs (each maps to the producer's object)
  pc,        \* position of each worker / consumer / reprocessing goroutine
  cur,       \* the job (in-process) or stream entry (stream) a process holds
  lj,        \* processMessage's local job j
  lnow,      \* the local now of an in-process worker
  herr,      \* the handler's return value as the process holds it
  rexp,      \* the run context's deadline has elapsed
  stream,    \* broker: the main stream, entry ids are positions
  lastDel,   \* broker: the group's last-delivered id
  pel,       \* broker: the group's pending entries list
  dl,        \* broker: the dead-letter stream
  cache,     \* RedisQueue.jobs
  kpc,       \* position of the claimer
  ktodo,     \* claimStuckJobs: the pending entries still to visit
  kmsg,      \* claimStuckJobs: the claimed entry being dead-lettered
  ended,     \* history, per job: how the completed runs of it ended
  late,      \* history: the jobs whose Enqueue was called after Close returned
  snap,      \* what a getJob request has read so far of the job Status returned
  erred,     \* history: the consumers whose XReadGroup failed since their last entry
  rret,      \* history: what the calls of RetryDeadLetterJob returned
  order,     \* history: the jobs in the order in which Enqueue accepted them
  sub        \* the follow-up job whose Enqueue a handler invocation is in, or 0

vars == <<backend, clock, obj, pstate, ctxDone, nstarted, closing, closed,
          buf, mjobs, pc, cur, lj, lnow, herr, rexp,
          stream, lastDel, pel, dl, cache, kpc, ktodo, kmsg, ended, late, snap, erred, rret, order, sub>>

memVars == <<buf, mjobs, lnow>>
brokerVars == <<stream, lastDel, pel, dl>>
claimerVars == <<kpc, ktodo, kmsg>>
redisVars == <<stream, lastDel, pel, dl, cache, kpc, ktodo, kmsg, lj>>
lifeVars == <<backend, ctxDone, nstarted, closing, closed>>

\* time.Now()
Now == <<clock>>

\* jobs are numbered in the order in which their producers call Enqueue
NextToCall(j) == pstate[j] = "new" /\ \A i \in JobIds : i < j => pstate[i] # "new"

\* a header that always takes a new identifier
Stamp_FreshId(r, j) ==
  [r EXCEPT !.id = j,
            !.status = "queued",
            !.enqueued = Now]

\* a header that leaves the status unset
Stamp_NoStatus(r, j) ==
  [r EXCEPT !.id = IF r.id = 0 THEN j ELSE r.id,
            !.enqueued = Now]

\* the header of Enqueue, both backends: id, status and enqueued timestamp
\* (job j's identifier is j: uuid.New() never repeats)
Stamp(r, j) ==
  [r EXCEPT !.id = IF r.id = 0 THEN j ELSE r.id,
            !.status = "queued",
            !.enqueued = Now]

\* the queue, the broker and the processes after construction, with the
\* producers of the given jobs
ConstructedFor(jobs) ==
  /\ backend \in {"mem", "redis"}
  /\ clock = 0
  /\ pstate = [j \in jobs |-> "new"]
  /\ ctxDone = FALSE
  /\ nstarted = 0
  /\ closing = FALSE
  /\ closed = FALSE
  /\ buf = <<>>
  /\ mjobs = {}
  /\ pc = [p \in Procs |-> "off"]
  /\ cur = [p \in Procs |-> 0]
  /\ lj = [p \in Procs |-> NoJob]
  /\ lnow = [p \in Procs |-> <<>>]
  /\ herr = [p \in Procs |-> "none"]
  /\ rexp = [p \in Procs |-> FALSE]
  /\ stream = <<>>
  /\ lastDel = 0
  /\ pel = [e \in EntryIds |-> NoJob]
  /\ dl = <<>>
  /\ cache = [id \in Ids |-> NoJob]
  /\ kpc = "off"
  /\ ktodo = <<>>
  /\ kmsg = NoJob
  /\ ended = [j \in jobs |-> {}]
  /\ late = {}
  /\ snap = NoJob
  /\ erred = {}
  /\ rret = <<>>
  /\ order = <<>>
  /\ sub = [p \in Procs |-> 0]

\* the queue, the broker and the processes after construction
Constructed == ConstructedFor(JobIds)

\* every producer leaves the identifier unset, as the callers in this
\* repository do
Init ==
  /\ obj = [j \in JobIds |-> NewJob(j)]
  /\ Constructed

\* ------------------------------------------------------- the environment
\* time passes
Tick ==
  /\ clock < MaxClock
  /\ clock' = clock + 1
  /\ UNCHANGED <<lifeVars, obj, pstate, memVars, pc, cur, herr, rexp, redisVars, ended, late, snap, erred, rret, order, sub>>

\* main's cancel(): the context given to StartConsumers is cancelled
CancelCtx ==
  /\ ~ctxDone
  /\ nstarted > 0
  /\ ctxDone' = TRUE
  /\ UNCHANGED <<backend, nstarted, closing, closed, clock, obj, pstate, memVars,
                 pc, cur, herr, rexp, redisVars, ended, late, snap, erred, rret, order, sub>>

\* context.WithTimeout(ctx, q.maxWait): the deadline passes while the handler runs
DeadlineElapse(p) ==
  /\ pc[p] = "handler"
  /\ ~rexp[p]
  /\ rexp' = [rexp EXCEPT ![p] = TRUE]
  /\ UNCHANGED <<lifeVars, clock, obj, pstate, memVars, pc, cur, herr, redisVars, ended, late, snap, erred, rret, order, sub>>

\* a run context derived from context.Background()
RunCtxDone_DeadlineOnly(p) == rexp[p]

\* the run context of p's handler invocation is done
RunCtxDone(p) == rexp[p] \/ ctxDone

\* a final status that ignores the handler's error
FinalStatus_Succeeded(e) == "succeeded"

\* if err != nil { failed } else { succeeded }
FinalStatus(e) == IF e = "err" THEN "failed" ELSE "succeeded"

\* ---------------------------------------------------- in-process backend
\* memQueue.Enqueue, up to the select; x: the caller's context is already done
MemEnqueueCall(j, x) ==
  /\ backend = "mem"
  /\ NextToCall(j)
  /\ obj' = [obj EXCEPT ![j] = Stamp(obj[j], j)]
  /\ pstate' = [pstate EXCEPT ![j] = IF x THEN "sendingc" ELSE "sending"]
  /\ late' = IF closed THEN late \cup {j} ELSE late
  /\ UNCHANGED <<snap, erred, rret, order, sub>>
  /\ UNCHANGED <<lifeVars, clock, memVars, pc, cur, herr, rexp, redisVars, ended>>

\* the caller's context is cancelled while Enqueue waits in the select
CallerCancel(j) ==
  /\ backend = "mem"
  /\ pstate[j] = "sending"
  /\ pstate' = [pstate EXCEPT ![j] = "sendingc"]
  /\ UNCHANGED <<lifeVars, clock, obj, memVars, pc, cur, herr, rexp, redisVars, ended, late, snap, erred, rret, order, sub>>

\* case q.buf <- j on a channel made with buffer n (the select may take it
\* with the context done as well)
MemEnqueueSendUpTo(j, n) ==
  /\ backend = "mem"
  /\ pstate[j] \in {"sending", "sendingc"}
  /\ Len(buf) < n
  /\ buf' = Append(buf, j)
  /\ pstate' = [pstate EXCEPT ![j] = "sent"]
  /\ order' = Append(order, j)
  /\ UNCHANGED <<lifeVars, clock, obj, mjobs, lnow, pc, cur, herr, rexp, redisVars, ended, late, snap, erred, rret, sub>>

\* a send that does not wait for room in the buffer
MemEnqueueSend_NoLimit(j) ==
  /\ backend = "mem"
  /\ pstate[j] \in {"sending", "sendingc"}
  /\ buf' = Append(buf, j)
  /\ pstate' = [pstate EXCEPT ![j] = "sent"]
  /\ order' = Append(order, j)
  /\ UNCHANGED <<lifeVars, clock, obj, mjobs, lnow, pc, cur, herr, rexp, redisVars, ended, late, snap, erred, rret, sub>>

\* case q.buf <- j with the buffer of this queue
MemEnqueueSend(j) == MemEnqueueSendUpTo(j, Capacity)

\* q.jobs[j.ID] = j; return j.ID, nil
MemEnqueueStore(j) ==
  /\ backend = "mem"
  /\ pstate[j] = "sent"
  /\ mjobs' = mjobs \cup {obj[j].id}
  /\ pstate' = [pstate EXCEPT ![j] = "done"]
  /\ UNCHANGED <<lifeVars, clock, obj, buf, lnow, pc, cur, herr, rexp, redisVars, ended, late, snap, erred, rret, order, sub>>

\* an Enqueue that reports cancellation after its send went through
MemEnqueueCancel_AfterSend(j) ==
  /\ backend = "mem"
  /\ pstate[j] = "sent"
  /\ pstate' = [pstate EXCEPT ![j] = "failed"]
  /\ UNCHANGED <<lifeVars, clock, obj, memVars, pc, cur, herr, rexp, redisVars, ended, late, snap, erred, rret, order, sub>>

\* case <-ctx.Done(): return uuid.Nil, ctx.Err()
MemEnqueueCancel(j) ==
  /\ backend = "mem"
  /\ pstate[j] = "sendingc"
  /\ pstate' = [pstate EXCEPT ![j] = "failed"]
  /\ UNCHANGED <<lifeVars, clock, obj, memVars, pc, cur, herr, rexp, redisVars, ended, late, snap, erred, rret, order, sub>>

\* memQueue.StartConsumers(ctx, n, handler)
MemStartConsumers(n) ==
  /\ backend = "mem"
  /\ nstarted = 0
  /\ nstarted' = n
  /\ pc' = [p \in Procs |-> IF p <= n THEN "select" ELSE pc[p]]
  /\ UNCHANGED <<backend, ctxDone, closing, closed, clock, obj, pstate, memVars,
                 cur, herr, rexp, redisVars, ended, late, snap, erred, rret, order, sub>>

\* case <-ctx.Done(): return
MemWorkerExit(w) ==
  /\ backend = "mem"
  /\ pc[w] = "select"
  /\ ctxDone
  /\ pc' = [pc EXCEPT ![w] = "exited"]
  /\ UNCHANGED <<lifeVars, clock, obj, pstate, memVars, cur, herr, rexp, redisVars, ended, late, snap, erred, rret, order, sub>>

\* a receive that takes the newest job in the buffer
MemDequeue_Last(w) ==
  /\ backend = "mem"
  /\ pc[w] = "select"
  /\ buf # <<>>
  /\ cur' = [cur EXCEPT ![w] = buf[Len(buf)]]
  /\ buf' = SubSeq(buf, 1, Len(buf) - 1)
  /\ lnow' = [lnow EXCEPT ![w] = Now]
  /\ pc' = [pc EXCEPT ![w] = "mark"]
  /\ UNCHANGED <<lifeVars, clock, obj, pstate, mjobs, herr, rexp, redisVars, ended, late, snap, erred, rret, order, sub>>

\* case j := <-q.buf; now := time.Now()
MemDequeue(w) ==
  /\ backend = "mem"
  /\ pc[w] = "select"
  /\ buf # <<>>
  /\ cur' = [cur EXCEPT ![w] = Head(buf)]
  /\ buf' = Tail(buf)
  /\ lnow' = [lnow EXCEPT ![w] = Now]
  /\ pc' = [pc EXCEPT ![w] = "mark"]
  /\ UNCHANGED <<lifeVars, clock, obj, pstate, mjobs, herr, rexp, redisVars, ended, late, snap, erred, rret, order, sub>>

\* j.Status = job.StatusRunning
MemMarkRunning(w) ==
  /\ backend = "mem"
  /\ pc[w] = "mark"
  /\ obj' = [obj EXCEPT ![cur[w]].status = "running"]
  /\ pc' = [pc EXCEPT ![w] = "stamp"]
  /\ UNCHANGED <<lifeVars, clock, pstate, memVars, cur, herr, rexp, redisVars, ended, late, snap, erred, rret, order, sub>>

\* j.Started = &now; runCtx, cancel := context.WithTimeout(ctx, q.maxWait); handler(runCtx, j)
MemMarkStarted(w) ==
  /\ backend = "mem"
  /\ pc[w] = "stamp"
  /\ obj' = [obj EXCEPT ![cur[w]].started = lnow[w]]
  /\ lnow' = [lnow EXCEPT ![w] = <<>>]
  /\ pc' = [pc EXCEPT ![w] = "handler"]
  /\ UNCHANGED <<lifeVars, clock, pstate, buf, mjobs, cur, herr, rexp, redisVars, ended, late, snap, erred, rret, order, sub>>

\* err := handler(runCtx, j) returns; cancel(); fin := time.Now(); j.Finished = &fin
MemHandlerReturn(w, e) ==
  /\ backend = "mem"
  /\ pc[w] = "handler"
  /\ herr' = [herr EXCEPT ![w] = e]
  /\ obj' = [obj EXCEPT ![cur[w]].finished = Now]
  /\ pc' = [pc EXCEPT ![w] = "status"]
  /\ UNCHANGED <<lifeVars, clock, pstate, memVars, cur, rexp, redisVars, ended, late, snap, erred, rret, order, sub>>

\* j.Status = job.StatusFailed / job.StatusSucceeded; with err == nil the worker loops
MemSetStatus(w) ==
  /\ backend = "mem"
  /\ pc[w] = "status"
  /\ obj' = [obj EXCEPT ![cur[w]].status = FinalStatus(herr[w])]
  /\ IF herr[w] = "err"
       THEN /\ pc' = [pc EXCEPT ![w] = "error"]
            /\ UNCHANGED <<cur, ended, herr, rexp>>
       ELSE /\ pc' = [pc EXCEPT ![w] = "select"]
            /\ cur' = [cur EXCEPT ![w] = 0]
            /\ herr' = [herr EXCEPT ![w] = "none"]
            /\ rexp' = [rexp EXCEPT ![w] = FALSE]
            /\ ended' = [ended EXCEPT ![cur[w]] = @ \cup {"nil"}]
  /\ UNCHANGED <<lifeVars, clock, pstate, memVars, redisVars, late, snap, erred, rret, order, sub>>

\* a worker that returns from its loop on a handler error
MemSetError_Exit(w) ==
  /\ backend = "mem"
  /\ pc[w] = "error"
  /\ obj' = [obj EXCEPT ![cur[w]].error = "err"]
  /\ pc' = [pc EXCEPT ![w] = "exited"]
  /\ cur' = [cur EXCEPT ![w] = 0]
  /\ herr' = [herr EXCEPT ![w] = "none"]
  /\ rexp' = [rexp EXCEPT ![w] = FALSE]
  /\ ended' = [ended EXCEPT ![cur[w]] = @ \cup {"err"}]
  /\ UNCHANGED <<lifeVars, clock, pstate, memVars, redisVars, late, snap, erred, rret, order, sub>>

\* j.Error = err.Error(); the worker loops
MemSetError(w) ==
  /\ backend = "mem"
  /\ pc[w] = "error"
  /\ obj' = [obj EXCEPT ![cur[w]].error = "err"]
  /\ pc' = [pc EXCEPT ![w] = "select"]
  /\ cur' = [cur EXCEPT ![w] = 0]
  /\ herr' = [herr EXCEPT ![w] = "none"]
  /\ rexp' = [rexp EXCEPT ![w] = FALSE]
  /\ ended' = [ended EXCEPT ![cur[w]] = @ \cup {"err"}]
  /\ UNCHANGED <<lifeVars, clock, pstate, memVars, redisVars, late, snap, erred, rret, order, sub>>

\* memQueue.Close: nothing to clean up, return nil
MemClose ==
  /\ backend = "mem"
  /\ ~closed
  /\ closing' = TRUE
  /\ closed' = TRUE
  /\ UNCHANGED <<backend, ctxDone, nstarted, clock, obj, pstate, memVars,
                 pc, cur, herr, rexp, redisVars, ended, late, snap, erred, rret, order, sub>>

MemNext ==
  \/ MemClose
  \/ \E j \in JobIds : \E x \in BOOLEAN : MemEnqueueCall(j, x)
  \/ \E j \in JobIds : CallerCancel(j)
  \/ \E j \in JobIds : MemEnqueueSend(j)
  \/ \E j \in JobIds : MemEnqueueStore(j)
  \/ \E j \in JobIds : MemEnqueueCancel(j)
  \/ \E n \in Workers : MemStartConsumers(n)
  \/ \E w \in Workers : MemWorkerExit(w)
  \/ \E w \in Workers : MemDequeue(w)
  \/ \E w \in Workers : MemMarkRunning(w)
  \/ \E w \in Workers : MemMarkStarted(w)
  \/ \E w \in Workers : \E e \in {"nil", "err"} : MemHandlerReturn(w, e)
  \/ \E w \in Workers : MemSetStatus(w)
  \/ \E w \in Workers : MemSetError(w)

\* ---------------------------------------------------------- the broker
\* a stream entry as Enqueue writes it: Values{"id": j.ID.String(), "data": string(data)}
Entry(r) == [id |-> r.id, data |-> Marshal(r)]

\* XADD
XAdd(s, e) == Append(s, e)

\* a read with NOACK: the entry is never pending
Delivered_NoAck == NoJob

\* the pending-entries record XREADGROUP ">" creates: delivered once, idle 0
Delivered == [count |-> 1, idle |-> FALSE]

\* a claim that leaves the delivery counter as it is (XCLAIM ... JUSTID)
Claimed_JustId(pe) == [count |-> pe.count, idle |-> FALSE]

\* XCLAIM: the delivery counter goes up, the idle time is reset.  Counts above
\* MaxRetries + 1 are kept at MaxRetries + 1: the code only asks count > MaxRetries
Claimed(pe) ==
  [count |-> IF pe.count > MaxRetries THEN pe.count ELSE pe.count + 1, idle |-> FALSE]

\* XACK
XAck(pl, e) == [pl EXCEPT ![e] = NoJob]

Pending(e) == pel[e] # NoJob

\* data, ok := msg.Values["data"].(string)
HasData(m) == "data" \in DOMAIN m

\* bytes that are not JSON text
Garbage == [text |-> "not json"]

\* json.Unmarshal([]byte(data), &j) returns no error
Decodes(d) == "text" \notin DOMAIN d

\* entry e passes both checks at the head of processMessage
WellFormed(e) == HasData(stream[e]) /\ Decodes(stream[e].data)

\* the job a stream entry carries, 0 if it carries none
JobOf(e) == IF WellFormed(e) THEN JobIx(Unmarshal(stream[e].data).id) ELSE 0

\* a claimer that takes pending entries whatever their idle time
IdleEnough_Any(e) == TRUE

\* p.Idle >= q.claimTimeout (others are skipped), and XClaim's MinIdle:
\* q.claimTimeout, which the broker checks again when it claims
IdleEnough(e) == pel[e].idle

\* XPENDING start "-" end "+": the pending entries in id order with their idle
\* time and delivery count; claimStuckJobs skips those with Idle < claimTimeout
ScanList ==
  LET ids == [i \in 1..Len(stream) |-> i]
      stuck == SelectSeq(ids, LAMBDA e : Pending(e) /\ IdleEnough(e))
  IN [i \in 1..Len(stuck) |-> [eid |-> stuck[i], count |-> pel[stuck[i]].count]]

\* a pending entry's idle time reaches claimTimeout
IdleElapse(e) ==
  /\ backend = "redis"
  /\ Pending(e)
  /\ ~pel[e].idle
  /\ pel' = [pel EXCEPT ![e].idle = TRUE]
  /\ UNCHANGED <<lifeVars, clock, obj, pstate, memVars, pc, cur, herr, rexp,
                 stream, lastDel, dl, cache, claimerVars, lj, ended, late, snap, erred, rret, order, sub>>

\* -------------------------------------------------------- stream backend
\* RedisQueue.Enqueue up to XAdd, on a stream that takes n entries in this run;
\* ok = FALSE: the caller's context is done or the broker refuses, Enqueue
\* returns uuid.Nil and the error
REnqueueAddUpTo(j, ok, n) ==
  /\ backend = "redis"
  /\ NextToCall(j)
  /\ obj' = [obj EXCEPT ![j] = Stamp(obj[j], j)]
  /\ IF ok
       THEN /\ Len(stream) < n
            /\ stream' = XAdd(stream, Entry(obj'[j]))
            /\ pstate' = [pstate EXCEPT ![j] = "added"]
            /\ order' = Append(order, j)
       ELSE /\ pstate' = [pstate EXCEPT ![j] = "failed"]
            /\ UNCHANGED <<stream, order, sub>>
  /\ late' = IF closed THEN late \cup {j} ELSE late
  /\ UNCHANGED <<snap, erred, rret, sub>>
  /\ UNCHANGED <<lifeVars, clock, memVars, pc, cur, herr, rexp,
                 lastDel, pel, dl, cache, claimerVars, lj, ended>>

\* RedisQueue.Enqueue up to XAdd
REnqueueAdd(j, ok) == REnqueueAddUpTo(j, ok, MaxStream)

\* q.jobs[j.ID] = j; return j.ID, nil
REnqueueStore(j) ==
  /\ backend = "redis"
  /\ pstate[j] = "added"
  /\ cache' = [cache EXCEPT ![obj[j].id] = obj[j]]
  /\ pstate' = [pstate EXCEPT ![j] = "done"]
  /\ UNCHANGED <<lifeVars, clock, obj, memVars, pc, cur, herr, rexp,
                 brokerVars, claimerVars, lj, ended, late, snap, erred, rret, order, sub>>

\* a StartConsumers whose consumers read only the entries added from now on
RStartConsumers_FromEnd(n) ==
  /\ backend = "redis"
  /\ nstarted = 0
  /\ nstarted' = n
  /\ pc' = [p \in Procs |-> IF p <= n THEN "loop" ELSE pc[p]]
  /\ kpc' = "wait"
  /\ lastDel' = Len(stream)
  /\ UNCHANGED <<backend, ctxDone, closing, closed, clock, obj, pstate, memVars,
                 cur, herr, rexp, stream, pel, dl, cache, ktodo, kmsg, lj, ended, late, snap, erred, rret, order, sub>>

\* RedisQueue.StartConsumers(ctx, n, handler): n consumers and the claimer
RStartConsumers(n) ==
  /\ backend = "redis"
  /\ nstarted = 0
  /\ nstarted' = n
  /\ pc' = [p \in Procs |-> IF p <= n THEN "loop" ELSE pc[p]]
  /\ kpc' = "wait"
  /\ UNCHANGED <<backend, ctxDone, closing, closed, clock, obj, pstate, memVars,
                 cur, herr, rexp, brokerVars, cache, ktodo, kmsg, lj, ended, late, snap, erred, rret, order, sub>>

\* a consumer that looks at its context only
RLoopExit_CtxOnly(c) ==
  /\ backend = "redis"
  /\ pc[c] = "loop"
  /\ ctxDone
  /\ pc' = [pc EXCEPT ![c] = "exited"]
  /\ erred' = erred \ {c}
  /\ UNCHANGED <<lifeVars, clock, obj, pstate, memVars, cur, herr, rexp, redisVars, ended, late, snap, rret, order, sub>>

\* consumer: case <-ctx.Done() / case <-q.closing: return
RLoopExit(c) ==
  /\ backend = "redis"
  /\ pc[c] = "loop"
  /\ ctxDone \/ closing
  /\ pc' = [pc EXCEPT ![c] = "exited"]
  /\ erred' = erred \ {c}
  /\ UNCHANGED <<lifeVars, clock, obj, pstate, memVars, cur, herr, rexp, redisVars, ended, late, snap, rret, order, sub>>

\* consumer: default: XReadGroup(... Block: 5s) is called
RLoopRead(c) ==
  /\ backend = "redis"
  /\ pc[c] = "loop"
  /\ ~ctxDone /\ ~closing
  /\ pc' = [pc EXCEPT ![c] = "read"]
  /\ UNCHANGED <<lifeVars, clock, obj, pstate, memVars, cur, herr, rexp, redisVars, ended, late, snap, erred, rret, order, sub>>

\* processMessage up to the handler call: unmarshal, running/started
Running(e) == [Unmarshal(stream[e].data) EXCEPT !.status = "running", !.started = Now]

\* a read that leaves the group's last-delivered id where it was
RRead_Again(c) ==
  /\ backend = "redis"
  /\ pc[c] = "read"
  /\ ~ctxDone
  /\ lastDel < Len(stream)
  /\ WellFormed(lastDel + 1)
  /\ pel' = [pel EXCEPT ![lastDel + 1] = Delivered]
  /\ cur' = [cur EXCEPT ![c] = lastDel + 1]
  /\ lj' = [lj EXCEPT ![c] = Running(lastDel + 1)]
  /\ cache' = [cache EXCEPT ![lj'[c].id] = lj'[c]]
  /\ pc' = [pc EXCEPT ![c] = "handler"]
  /\ UNCHANGED <<lifeVars, clock, obj, pstate, memVars, herr, rexp,
                 stream, lastDel, dl, claimerVars, ended, late, snap, erred, rret, order, sub>>

\* XReadGroup returns the next never-delivered entry, now pending, and
\* processMessage runs up to the handler call (the first cache write included)
RRead(c) ==
  /\ backend = "redis"
  /\ pc[c] = "read"
  /\ ~ctxDone
  /\ lastDel < Len(stream)
  /\ WellFormed(lastDel + 1)
  /\ lastDel' = lastDel + 1
  /\ pel' = [pel EXCEPT ![lastDel + 1] = Delivered]
  /\ cur' = [cur EXCEPT ![c] = lastDel + 1]
  /\ lj' = [lj EXCEPT ![c] = Running(lastDel + 1)]
  /\ cache' = [cache EXCEPT ![lj'[c].id] = lj'[c]]
  /\ pc' = [pc EXCEPT ![c] = "handler"]
  /\ UNCHANGED <<lifeVars, clock, obj, pstate, memVars, herr, rexp,
                 stream, dl, claimerVars, ended, late, snap, erred, rret, order, sub>>

\* XReadGroup returns redis.Nil (nothing new in 5s) or context.Canceled: continue
RReadNil(c) ==
  /\ backend = "redis"
  /\ pc[c] = "read"
  /\ ctxDone \/ lastDel = Len(stream)
  /\ pc' = [pc EXCEPT ![c] = "loop"]
  /\ UNCHANGED <<lifeVars, clock, obj, pstate, memVars, cur, herr, rexp, redisVars, ended, late, snap, erred, rret, order, sub>>

\* a consumer that gives up on a read error
RReadErr_Exit(c) ==
  /\ backend = "redis"
  /\ pc[c] = "read"
  /\ pc' = [pc EXCEPT ![c] = "exited"]
  /\ erred' = erred \cup {c}
  /\ UNCHANGED <<lifeVars, clock, obj, pstate, memVars, cur, herr, rexp, redisVars, ended, late, snap, rret, order, sub>>

\* XReadGroup returns another error: log, time.Sleep(time.Second), continue
RReadErr(c) ==
  /\ backend = "redis"
  /\ pc[c] = "read"
  /\ pc' = [pc EXCEPT ![c] = "loop"]
  /\ erred' = erred \cup {c}
  /\ UNCHANGED <<lifeVars, clock, obj, pstate, memVars, cur, herr, rexp, redisVars, ended, late, snap, rret, order, sub>>

\* processMessage after the handler: finished, status, error
Finish(j, e) ==
  [j EXCEPT !.finished = Now,
            !.status = FinalStatus(e),
            !.error = IF e = "err" THEN "err" ELSE @]

\* err := handler(runCtx, &j) returns; cancel(); the final status; second cache write
PmHandlerReturn(p, e) ==
  /\ backend = "redis"
  /\ pc[p] = "handler"
  /\ lj' = [lj EXCEPT ![p] = Finish(@, e)]
  /\ cache' = [cache EXCEPT ![lj[p].id] = lj'[p]]
  /\ herr' = [herr EXCEPT ![p] = e]
  /\ pc' = [pc EXCEPT ![p] = "ack"]
  /\ UNCHANGED <<lifeVars, clock, obj, pstate, memVars, cur, rexp,
                 brokerVars, claimerVars, ended, late, snap, erred, rret, order, sub>>

\* where a process goes when processMessage returns: a consumer (one of the
\* first nstarted processes) loops, a reprocessing goroutine ends
AfterRun(p) == IF p <= nstarted THEN "loop" ELSE "off"

\* q.ackMessage(ctx, msg.ID): XAck fails with a cancelled ctx, which is only logged
AckMessage(pl, e) == IF ctxDone THEN pl ELSE XAck(pl, e)

\* q.ackMessage(ctx, msg.ID) and return
PmAck(p) ==
  /\ backend = "redis"
  /\ pc[p] = "ack"
  /\ pel' = AckMessage(pel, cur[p])
  /\ ended' = [ended EXCEPT ![JobIx(lj[p].id)] = @ \cup {herr[p]}]
  /\ pc' = [pc EXCEPT ![p] = AfterRun(p)]
  /\ cur' = [cur EXCEPT ![p] = 0]
  /\ lj' = [lj EXCEPT ![p] = NoJob]
  /\ herr' = [herr EXCEPT ![p] = "none"]
  /\ rexp' = [rexp EXCEPT ![p] = FALSE]
  /\ erred' = erred \ {p}
  /\ UNCHANGED <<lifeVars, clock, obj, pstate, memVars, stream, lastDel, dl,
                 cache, claimerVars, late, snap, rret, order, sub>>

\* claimer: case <-ctx.Done() / case <-q.closing: return
KExit ==
  /\ backend = "redis"
  /\ kpc = "wait"
  /\ ctxDone \/ closing
  /\ kpc' = "exited"
  /\ UNCHANGED <<lifeVars, clock, obj, pstate, memVars, pc, cur, herr, rexp,
                 brokerVars, cache, ktodo, kmsg, lj, ended, late, snap, erred, rret, order, sub>>

\* claimer: case <-ticker.C: claimStuckJobs; XPendingExt finds stuck entries
\* (with a cancelled ctx it fails, and with none stuck the loop body never runs)
KScan ==
  /\ backend = "redis"
  /\ kpc = "wait"
  /\ ~ctxDone
  /\ ScanList # <<>>
  /\ kpc' = "claim"
  /\ ktodo' = ScanList
  /\ UNCHANGED <<lifeVars, clock, obj, pstate, memVars, pc, cur, herr, rexp,
                 brokerVars, cache, kmsg, lj, ended, late, snap, erred, rret, order, sub>>

\* the position of the claimer once the entry at the head of ktodo is dealt with
KAfter == IF Len(ktodo) > 1 THEN "claim" ELSE "wait"

\* XClaim of the next stuck entry fails (cancelled ctx) or returns no message (the
\* entry was acknowledged or claimed since the scan): continue
KClaimNone ==
  /\ backend = "redis"
  /\ kpc = "claim"
  /\ ctxDone \/ ~(Pending(Head(ktodo).eid) /\ IdleEnough(Head(ktodo).eid))
  /\ kpc' = KAfter
  /\ ktodo' = Tail(ktodo)
  /\ UNCHANGED <<lifeVars, clock, obj, pstate, memVars, pc, cur, herr, rexp,
                 brokerVars, cache, kmsg, lj, ended, late, snap, erred, rret, order, sub>>

\* a ceiling of zero retries
Exhausted_First(p) == p.count >= 1

\* p.RetryCount > 3
Exhausted(p) == p.count > MaxRetries

\* XClaim(MinIdle: claimTimeout) returns the entry, and RetryCount is at most 3:
\* go q.processMessage(ctx, msg, handler, 0), which runs up to the handler call
KClaimRun(g) ==
  /\ backend = "redis"
  /\ kpc = "claim"
  /\ ~ctxDone
  /\ LET p == Head(ktodo)
     IN /\ Pending(p.eid) /\ IdleEnough(p.eid)
        /\ ~Exhausted(p)
        /\ WellFormed(p.eid)
        /\ pel' = [pel EXCEPT ![p.eid] = Claimed(@)]
        /\ cur' = [cur EXCEPT ![g] = p.eid]
        /\ lj' = [lj EXCEPT ![g] = Running(p.eid)]
  /\ cache' = [cache EXCEPT ![lj'[g].id] = lj'[g]]
  /\ pc[g] = "off"
  /\ \A h \in Gors : h < g => pc[h] # "off"
  /\ pc' = [pc EXCEPT ![g] = "handler"]
  /\ kpc' = KAfter
  /\ ktodo' = Tail(ktodo)
  /\ UNCHANGED <<lifeVars, clock, obj, pstate, memVars, herr, rexp,
                 stream, lastDel, dl, kmsg, ended, late, snap, erred, rret, order, sub>>

\* XClaim returns the entry, and RetryCount > 3: moveToDeadLetter is called
KClaimDead ==
  /\ backend = "redis"
  /\ kpc = "claim"
  /\ ~ctxDone
  /\ LET p == Head(ktodo)
     IN /\ Pending(p.eid) /\ IdleEnough(p.eid)
        /\ Exhausted(p)
        /\ pel' = [pel EXCEPT ![p.eid] = Claimed(@)]
        /\ kmsg' = p
  /\ kpc' = "dl"
  /\ UNCHANGED <<lifeVars, clock, obj, pstate, memVars, pc, cur, herr, rexp,
                 stream, lastDel, dl, cache, ktodo, lj, ended, late, snap, erred, rret, order, sub>>

\* the dead-letter record: original_id, data, reason (moved_at is left out)
DeadRecord(p) ==
  [original_id |-> p.eid,
   data |-> IF HasData(stream[p.eid]) THEN stream[p.eid].data ELSE NoJob,
   reason |-> <<"exceeded max retries", p.count>>]

\* moveToDeadLetter: XAdd to the dead-letter stream (ok = FALSE: it fails, which is
\* only logged), then q.ackMessage(ctx, msg.ID)
KDeadLetter(ok) ==
  /\ backend = "redis"
  /\ kpc = "dl"
  /\ ok => ~ctxDone
  /\ dl' = IF ok THEN XAdd(dl, DeadRecord(kmsg)) ELSE dl
  /\ pel' = AckMessage(pel, kmsg.eid)
  /\ ended' = IF WellFormed(kmsg.eid)
                THEN [ended EXCEPT ![JobOf(kmsg.eid)] = @ \cup {"dl"}]
                ELSE ended
  /\ kpc' = KAfter
  /\ ktodo' = Tail(ktodo)
  /\ kmsg' = NoJob
  /\ UNCHANGED <<lifeVars, clock, obj, pstate, memVars, pc, cur, herr, rexp,
                 stream, lastDel, cache, lj, late, snap, erred, rret, order, sub>>

\* RedisQueue.Close: close(q.closing)
RCloseCall ==
  /\ backend = "redis"
  /\ ~closing
  /\ closing' = TRUE
  /\ UNCHANGED <<backend, ctxDone, nstarted, closed, clock, obj, pstate, memVars,
                 pc, cur, herr, rexp, redisVars, ended, late, snap, erred, rret, order, sub>>

\* q.wg.Wait() returns: every consumer and the claimer have called wg.Done
WgZero ==
  /\ \A c \in Workers : pc[c] \in {"off", "exited"}
  /\ kpc \in {"off", "exited"}

\* RedisQueue.Close returns nil
RCloseReturn ==
  /\ backend = "redis"
  /\ closing /\ ~closed
  /\ WgZero
  /\ closed' = TRUE
  /\ UNCHANGED <<backend, ctxDone, nstarted, closing, clock, obj, pstate, memVars,
                 pc, cur, herr, rexp, redisVars, ended, late, snap, erred, rret, order, sub>>

\* the process ends (a crash, or exit after Close) and a new one calls NewRedisQueue
\* on the same stream and group: XGroupCreateMkStream answers BUSYGROUP, the broker
\* keeps the stream, the group and the dead-letter stream
Restart ==
  /\ backend = "redis"
  /\ stream # <<>>
  /\ pstate' = [j \in JobIds |->
                  CASE pstate[j] = "done" -> "prev"
                    [] pstate[j] = "added" -> "orphan"
                    [] OTHER -> pstate[j]]
  /\ ctxDone' = FALSE
  /\ nstarted' = 0
  /\ closing' = FALSE
  /\ closed' = FALSE
  /\ pc' = [p \in Procs |-> "off"]
  /\ cur' = [p \in Procs |-> 0]
  /\ lj' = [p \in Procs |-> NoJob]
  /\ herr' = [p \in Procs |-> "none"]
  /\ rexp' = [p \in Procs |-> FALSE]
  /\ cache' = [id \in Ids |-> NoJob]
  /\ kpc' = "off"
  /\ ktodo' = <<>>
  /\ kmsg' = NoJob
  /\ late' = {}
  /\ snap' = NoJob
  /\ erred' = {}
  /\ UNCHANGED <<rret, order, sub>>
  /\ UNCHANGED <<backend, clock, obj, memVars, brokerVars, ended>>

RedisNext ==
  \/ \E j \in JobIds : \E ok \in BOOLEAN : REnqueueAdd(j, ok)
  \/ \E j \in JobIds : REnqueueStore(j)
  \/ \E n \in Workers : RStartConsumers(n)
  \/ \E c \in Workers : RLoopExit(c)
  \/ \E c \in Workers : RLoopRead(c)
  \/ \E c \in Workers : RRead(c)
  \/ \E c \in Workers : RReadNil(c)
  \/ \E c \in Workers : RReadErr(c)
  \/ \E p \in Procs : \E e \in {"nil", "err"} : PmHandlerReturn(p, e)
  \/ \E p \in Procs : PmAck(p)
  \/ \E e \in EntryIds : IdleElapse(e)
  \/ KExit
  \/ KScan
  \/ KClaimNone
  \/ \E g \in Gors : KClaimRun(g)
  \/ KClaimDead
  \/ \E ok \in BOOLEAN : KDeadLetter(ok)
  \/ RCloseCall
  \/ RCloseReturn
  \/ Restart

Next ==
  \/ Tick
  \/ CancelCtx
  \/ \E p \in Procs : DeadlineElapse(p)
  \/ MemNext
  \/ RedisNext

Spec == Init /\ [][Next]_vars

\* ------------------------------------------------------------ observation
\* memQueue.Status / RedisQueue.Status: the job the map holds for id, and ok
Status(id) ==
  IF backend = "mem"
    THEN [found |-> id \in mjobs, job |-> obj[JobIx(id)]]
    ELSE [found |-> cache[id] # NoJob, job |-> cache[id]]

\* Enqueue has returned j's identifier and a nil error on this queue instance
Accepted(j) == pstate[j] = "done"

\* a worker, consumer or reprocessing goroutine holds job j
Holds(p, j) ==
  /\ cur[p] # 0
  /\ IF backend = "mem" THEN cur[p] = j ELSE JobOf(cur[p]) = j

InProgress(j) == \E p \in Procs : Holds(p, j)

\* the stream entries carrying job j
EntriesOf(j) == {e \in 1..Len(stream) : JobOf(e) = j}

\* no worker has picked job j up: it is in the buffer, or none of its entries
\* has been delivered
NotPickedUp(j) ==
  IF backend = "mem"
    THEN \E i \in 1..Len(buf) : buf[i] = j
    ELSE EntriesOf(j) # {} /\ \A e \in EntriesOf(j) : e > lastDel

Terminal(r) == r.status \in {"succeeded", "failed"}

\* every completed run of job j ended with the handler returning r, and no
\* worker holds j now
FinishedWith(j, r) == ended[j] = {r} /\ ~InProgress(j)

\* ------------------------------------------------------------------ C1
\* C1: for an accepted job whose handler returned nil, once the worker has
\* finished it Status finds it with status succeeded, started and finished
\* set, and started no later than finished (both backends).
C1_SucceededAfterNil ==
  \A j \in JobIds :
    (Accepted(j) /\ FinishedWith(j, "nil")) =>
      /\ Status(j).found
      /\ Status(j).job.status = "succeeded"
      /\ Status(j).job.started # <<>>
      /\ Status(j).job.finished # <<>>
      /\ Status(j).job.started[1] <= Status(j).job.finished[1]

\* ------------------------------------------------------------------ C2
\* C2: for an accepted job whose handler returned an error, the final status
\* Status reports is failed, with a non-empty error text (both backends).
C2_FailedAfterError ==
  \A j \in JobIds :
    (Accepted(j) /\ FinishedWith(j, "err")) =>
      /\ Status(j).found
      /\ Status(j).job.status = "failed"
      /\ Status(j).job.error # ""

\* ------------------------------------------------------------------ C3
\* C3: after Enqueue returned success and before any worker picked the job
\* up, Status finds the job, queued, with the enqueued timestamp set and
\* started and finished unset (both backends).
C3_QueuedBeforePickup ==
  \A j \in JobIds :
    (Accepted(j) /\ NotPickedUp(j)) =>
      /\ Status(j).found
      /\ Status(j).job.id = j
      /\ Status(j).job.status = "queued"
      /\ Status(j).job.enqueued # <<>>
      /\ Status(j).job.started = <<>>
      /\ Status(j).job.finished = <<>>

\* consumers run on the stream backend and an accepted job is still undelivered
C3_Witness ==
  /\ backend = "redis"
  /\ \E j \in JobIds : Accepted(j) /\ NotPickedUp(j) /\ nstarted > 0

\* ------------------------------------------------------------------ C4
\* the step in which process p writes the final status of its run
WritesStatus(p) ==
  IF backend = "mem"
    THEN pc[p] = "status" /\ pc'[p] # "status"
    ELSE pc[p] = "handler" /\ pc'[p] = "ack"

\* the status that step leaves for Status to report
WrittenStatus(p) ==
  IF backend = "mem" THEN obj'[cur[p]].status ELSE cache'[lj[p].id].status

\* what the handler returned to the process that takes that step
HandlerResult(p) == IF backend = "mem" THEN herr[p] ELSE herr'[p]

C9_AckAfterHandler ==
  /\ [](\A p \in Procs :
          (backend = "redis" /\ pc[p] = "handler" /\ ended[JobOf(cur[p])] = {})
            => Pending(cur[p]))
  /\ [][\A e \in 1..Len(stream) :
          (Pending(e) /\ pel'[e] = NoJob) =>
            \/ \E p \in Procs : pc[p] = "ack" /\ cur[p] = e /\ herr[p] # "none"
            \/ kpc = "dl" /\ kmsg.eid = e]_vars

\* a delivered entry was acknowledged by processMessage after its handler
\* returned nil, having been delivered once
C9_Witness ==
  /\ backend = "redis"
  /\ \E e \in 1..Len(stream) :
       e <= lastDel /\ ~Pending(e) /\ ended[JobOf(e)] = {"nil"}

\* ------------------------------------------------------------------ C10
\* a handler invocation for job j has returned
HandlerReturned(j) ==
  \/ ended[j] \cap {"nil", "err"} # {}
  \/ \E p \in Procs : pc[p] = "ack" /\ Holds(p, j)

\* the dead-letter stream holds a record of entry e
InDeadLetter(e) == \E i \in 1..Len(dl) : dl[i].original_id = e

\* C10: no accepted job is lost: after Enqueue returned success, also across
\* Close and restart, the job is undelivered or pending in the main stream,
\* or a handler invocation for it has returned, or the dead-letter stream
\* holds a record of it.
C10_NoAcceptedJobLost ==
  \A j \in JobIds :
    (backend = "redis" /\ pstate[j] \in {"done", "prev"}) =>
      \/ HandlerReturned(j)
      \/ \E e \in EntriesOf(j) : e > lastDel \/ Pending(e) \/ InDeadLetter(e)

\* ------------------------------------------------------------------ C7
\* the claimer claims the entry at the head of its list in this step
Claims(e) ==
  /\ kpc = "claim" /\ Head(ktodo).eid = e
  /\ Pending(e) /\ pel'[e] # NoJob /\ pel'[e] # pel[e] /\ ~pel'[e].idle

\* C7: a claimed entry whose observed count is above 3 is written to the
\* dead-letter stream with a reason, acknowledged, not passed to the handler
\* and never delivered or reclaimed again; one whose observed count is at
\* most 3 is re-dispatched to the handler and not dead-lettered.
C7_DeadLetterPolicy ==
  /\ [](\A e \in 1..Len(stream) :
          (backend = "redis" /\ "dl" \in ended[JobOf(e)]) =>
            /\ \E i \in 1..Len(dl) :
                 dl[i].original_id = e /\ dl[i].reason[1] = "exceeded max retries"
            /\ ~Pending(e))
  /\ [][\A e \in 1..Len(stream) :
          Claims(e) =>
            IF Head(ktodo).count > 3
              THEN /\ kpc' = "dl"
                   /\ \A p \in Procs : cur'[p] = e => cur[p] = e
              ELSE /\ \E g \in Gors : pc[g] = "off" /\ pc'[g] = "handler" /\ cur'[g] = e
                   /\ dl' = dl /\ kpc' # "dl"]_vars

\* ------------------------------------------------- scheduling and liveness
\* Next without the clock: the timestamps stay at 0, every other step is kept
LiveNext ==
  \/ CancelCtx
  \/ \E p \in Procs : DeadlineElapse(p)
  \/ MemNext
  \/ RedisNext

\* the Go scheduler runs every goroutine that can take a step: a producer past
\* its channel send or XAdd, a worker, a consumer, a reprocessing goroutine and
\* the claimer (whose ticker keeps firing).  XReadGroup may fail now and then,
\* not forever.  Nothing obliges a handler to return, a context to be cancelled,
\* the process to restart or an idle time to reach the claim timeout.
Fairness ==
  /\ \A j \in JobIds : WF_vars(MemEnqueueStore(j)) /\ WF_vars(REnqueueStore(j))
  /\ \A w \in Workers :
       /\ WF_vars(MemDequeue(w))
       /\ WF_vars(MemMarkRunning(w))
       /\ WF_vars(MemMarkStarted(w))
       /\ WF_vars(MemSetStatus(w))
       /\ WF_vars(MemSetError(w))
       /\ WF_vars(RLoopRead(w))
       /\ SF_vars(RRead(w))
  /\ \A p \in Procs : WF_vars(PmAck(p))
  /\ WF_vars(KScan)
  /\ WF_vars(KClaimNone)
  /\ WF_vars(\E g \in Gors : KClaimRun(g))
  /\ WF_vars(KClaimDead)
  /\ WF_vars(\E ok \in BOOLEAN : KDeadLetter(ok))

FairSpec == Init /\ [][LiveNext]_vars /\ Fairness

\* producers that may set the job's identifier before calling Enqueue
IdInit ==
  /\ \E supplied \in SUBSET JobIds :
       obj = [j \in JobIds |->
                IF j \in supplied
                  THEN [NewJob(j) EXCEPT !.id = SuppliedId(j)]
                  ELSE NewJob(j)]
  /\ Constructed

IdSpec == IdInit /\ [][LiveNext]_vars

\* consumers were started on this instance and nothing has stopped them
ConsumersRunning == nstarted > 0 /\ ~ctxDone /\ ~closing

\* every handler invocation returns
HandlersReturn == \A p \in Procs : []<>(pc[p] # "handler")

\* job j is with the handler, or a run of it has completed
PassedToHandler(j) ==
  \/ \E p \in Procs : pc[p] = "handler" /\ Holds(p, j)
  \/ ended[j] \cap {"nil", "err"} # {}

TerminalVisible(j) == Status(j).found /\ Terminal(Status(j).job)

\* ------------------------------------------------------------------ C5
\* C5: with a consumer running and handlers that always return, every
\* accepted job is eventually passed to the handler and eventually has a
\* terminal status visible through Status (both backends); the obligation
\* ends when the consumers are stopped.
C5_EventuallyTerminal ==
  HandlersReturn =>
    \A j \in JobIds :
      /\ (Accepted(j) /\ ConsumersRunning) ~> (PassedToHandler(j) \/ ~ConsumersRunning)
      /\ (Accepted(j) /\ ConsumersRunning) ~> (TerminalVisible(j) \/ ~ConsumersRunning)

\* ------------------------------------------------------------------ C6
\* the claimer of this instance is running and nothing has stopped it
ClaimerRunning == kpc \in {"wait", "claim", "dl"} /\ ~ctxDone /\ ~closing

\* a reprocessing goroutine can be started (at most MaxGoroutines run at a time)
FreeGoroutine == \E g \in Gors : pc[g] = "off"

\* entry e was delivered to a consumer, is unacknowledged and has been idle for
\* the claim timeout
Stuck(e) == e <= Len(stream) /\ Pending(e) /\ pel[e].count = 1 /\ pel[e].idle

\* a reprocessing goroutine has passed entry e to the handler
Reprocessing(e) == \E g \in Gors : pc[g] = "handler" /\ cur[g] = e

\* a handler invocation for the job of entry e has returned
Completed(e) == e <= Len(stream) /\ HandlerReturned(JobOf(e))

\* C6: an entry delivered to a consumer and abandoned before acknowledgment
\* stays pending (only processMessage after its handler, or the dead-letter
\* move, removes it), and once its idle time has reached the claim timeout a
\* running claimer eventually claims it and passes it to the handler again,
\* unless a handler invocation for it returns after all or the claimer is
\* stopped.
C6_StuckIsReclaimed ==
  /\ [][\A e \in 1..Len(stream) :
          (Pending(e) /\ pel[e].count = 1 /\ (\A p \in Procs : cur[p] # e))
            => pel'[e] # NoJob]_vars
  /\ \A e \in EntryIds :
       (Stuck(e) /\ ClaimerRunning)
         ~> \/ Reprocessing(e)
            \/ Completed(e)
            \/ ~ClaimerRunning \/ ~FreeGoroutine

\* after a restart the claimer has claimed an entry that its consumer left
\* pending, and a goroutine has passed it to the handler
C6_Witness ==
  /\ backend = "redis"
  /\ \E e \in 1..Len(stream) :
       /\ Pending(e) /\ pel[e].count = 2
       /\ Reprocessing(e)
       /\ \A c \in Workers : cur[c] # e

\* ------------------------------------------------------------------ C8
\* job j was accepted by an earlier instance and none of its entries was read
Survivor(j) == backend = "redis" /\ pstate[j] = "prev" /\ NotPickedUp(j)

\* a consumer of this instance has passed job j to the handler, payload intact
HandedOver(j) ==
  \E c \in Workers :
    /\ backend = "redis" /\ pc[c] = "handler" /\ Holds(c, j)
    /\ lj[c].id = j /\ lj[c].payload = PayloadOf(j)

\* C8: a job accepted by an instance that ended before any consumer read it
\* is still in the stream, and when a new instance on the same stream and
\* group runs consumers (whose handlers return) it is eventually passed to
\* the handler with its payload unchanged, unless the consumers are stopped.
C8_SurvivesRestart ==
  /\ [](\A j \in JobIds :
          (backend = "redis" /\ pstate[j] \in {"done", "prev"}) =>
            \E e \in EntriesOf(j) : Unmarshal(stream[e].data).payload = PayloadOf(j))
  /\ (HandlersReturn =>
        \A j \in JobIds :
          (Survivor(j) /\ ConsumersRunning) ~> (HandedOver(j) \/ ~ConsumersRunning))

\* a consumer of the new instance runs the handler on a job the previous
\* instance accepted and never read
C8_Witness ==
  /\ \E j \in JobIds : pstate[j] = "prev" /\ HandedOver(j) /\ ended[j] = {}
  /\ \A e \in 1..Len(stream) : Pending(e) => pel[e].count = 1

\* ------------------------------------------------------------------ C11
\* every loop and every processMessage of this instance has ended
AllExited ==
  /\ \A p \in Procs : pc[p] \in {"off", "exited"}
  /\ kpc \in {"off", "exited"}

\* C11: when Close returns, the consumers, the claimer and every reprocessing
\* of a reclaimed entry started by this instance have exited.
C11_CloseWaitsForAll ==
  [][(backend = "redis" /\ ~closed /\ closed') => AllExited']_vars

\* ------------------------------------------------------------------ C12
\* job j is in the buffer, in the stream or in the status cache
Submitted(j) ==
  \/ \E i \in 1..Len(buf) : buf[i] = j
  \/ EntriesOf(j) # {}
  \/ \E id \in Ids : JobIx(id) = j /\ (id \in mjobs \/ cache[id] # NoJob)

\* C12: an Enqueue call made after Close has returned does not accept the
\* job: it is not buffered or appended and not added to the status cache
\* (both backends).
C12_NoEnqueueAfterClose ==
  \A j \in late : ~Submitted(j) /\ pstate[j] \notin {"sent", "added", "done"}

\* ------------------------------------------------------------------ C13
\* C13: in-process backend: after Close has returned no worker dequeues a
\* further job from the buffer (jobs in flight may finish).
C13_NoDequeueAfterClose ==
  [][(backend = "mem" /\ closed) =>
       /\ Len(buf') >= Len(buf)
       /\ \A w \in Workers : pc[w] = "select" => pc'[w] # "mark"]_vars

\* ------------------------------------------------------------------ C14
\* what Enqueue returned for job j: return j.ID, nil / return uuid.Nil, err
EnqueueResult(j) ==
  CASE pstate[j] \in {"done", "prev"} -> [id |-> obj[j].id, err |-> "nil"]
    [] pstate[j] = "failed" -> [id |-> 0, err |-> "error"]
    [] OTHER -> NoJob

\* Enqueue waits in its select with the caller's context already cancelled
CancelledBeforeAccept(j) == pstate[j] = "sendingc"

C19_BoundedBuffer ==
  /\ [](backend = "mem" => Len(buf) <= Capacity)
  /\ [][\A j \in JobIds :
          (backend = "mem" /\ pstate[j] \in {"sending", "sendingc"}
             /\ pstate'[j] \notin {"sending", "sendingc"}) =>
            \/ /\ pstate'[j] = "sent"
               /\ Len(buf) < Capacity /\ buf' = Append(buf, j)
            \/ /\ pstate'[j] = "failed"
               /\ pstate[j] = "sendingc" /\ buf' = buf]_vars

\* the buffer is full and an Enqueue waits in its select
C19_Witness ==
  /\ backend = "mem"
  /\ Len(buf) = Capacity
  /\ \E j \in JobIds : pstate[j] = "sending"

\* ------------------------------------------------------------------ C15
\* the identifiers of the jobs other than j
OtherIds(j) == {obj[i].id : i \in JobIds \ {j}}

\* C15: Enqueue keeps a non-nil identifier the producer supplied and takes a
\* fresh non-nil one otherwise, never changes it afterwards, and on success
\* returns exactly the identifier stored on the job, under which Status finds
\* the job (both backends).
C15_IdentifierKept ==
  /\ [][\A j \in JobIds :
          /\ (pstate[j] = "new" /\ pstate'[j] # "new") =>
               /\ obj'[j].id # 0
               /\ obj[j].id # 0 => obj'[j].id = obj[j].id
               /\ obj[j].id = 0 => obj'[j].id \notin OtherIds(j)
          /\ pstate[j] # "new" => obj'[j].id = obj[j].id]_vars
  /\ [](\A j \in JobIds :
          Accepted(j) =>
            /\ EnqueueResult(j).id = obj[j].id /\ EnqueueResult(j).err = "nil"
            /\ Status(EnqueueResult(j).id).found
            /\ Status(EnqueueResult(j).id).job.id = EnqueueResult(j).id)

\* Enqueue has accepted one job under the identifier its producer supplied
\* and another under a generated one
C15_Witness ==
  \E i, j \in JobIds :
    /\ Accepted(i) /\ obj[i].id = SuppliedId(i) /\ Status(SuppliedId(i)).found
    /\ Accepted(j) /\ obj[j].id = j /\ Status(j).found

\* ------------------------------------------------------------------ C16
\* Enqueue returns success for the job named id in this step
AcceptStep(id) ==
  \E j \in JobIds : obj'[j].id = id /\ pstate[j] # "done" /\ pstate'[j] = "done"

\* a worker, consumer or reprocessing goroutine picks the job named id up in
\* this step
PickUpStep(id) ==
  \E j \in JobIds : \E p \in Procs : obj[j].id = id /\ ~Holds(p, j) /\ Holds(p, j)'

\* the process is replaced by a new one with an empty cache
FreshInstance == nstarted' = 0 /\ \A id \in Ids : ~Status(id).found'

\* C16: Status(id) finds a job exactly when this queue instance has accepted
\* it through Enqueue or picked it up in a worker: an identifier becomes known
\* only by one of the two, stays known as long as the instance lives, and is
\* known whenever the job is accepted or in a worker's hands; a fresh instance
\* on the same stream knows no identifier until then.
C16_FoundIffKnown ==
  /\ [][\A id \in Ids :
          /\ (~Status(id).found /\ Status(id).found') => (AcceptStep(id) \/ PickUpStep(id))
          /\ (Status(id).found /\ ~Status(id).found') => FreshInstance]_vars
  /\ [](\A j \in JobIds :
          (Accepted(j) \/ InProgress(j)) => Status(obj[j].id).found)

\* the same for the stream backend alone
C16_Stream ==
  /\ [][\A id \in Ids :
          /\ (~Status(id).found /\ Status(id).found') => (AcceptStep(id) \/ PickUpStep(id))
          /\ (Status(id).found /\ ~Status(id).found') => FreshInstance]_vars
  /\ [](\A j \in JobIds :
          (backend = "redis" /\ (Accepted(j) \/ InProgress(j))) => Status(obj[j].id).found)

\* ------------------------------------------------------------------ C17
\* time.Time values in order; a nil *time.Time is <<>>
NotAfter(a, b) == a[1] <= b[1]

\* the timestamps of a snapshot are in order
Ordered(r) ==
  /\ r.started # <<>> => NotAfter(r.enqueued, r.started)
  /\ r.finished # <<>> => r.started # <<>> /\ NotAfter(r.started, r.finished)

\* a timestamp that Status has shown is shown unchanged in the next snapshot
SetOnce(id) ==
  (Status(id).found /\ Status(id).found') =>
    /\ Status(id).job.started # <<>> => Status(id).job.started' = Status(id).job.started
    /\ Status(id).job.finished # <<>> => Status(id).job.finished' = Status(id).job.finished

\* C17: for every identifier, started and finished as Status shows them are
\* each set at most once, and enqueued <= started <= finished, redelivered
\* stream jobs included.
C17_TimestampsSetOnce ==
  /\ [][\A id \in Ids : SetOnce(id)]_vars
  /\ [](\A id \in Ids : Status(id).found => Ordered(Status(id).job))

\* the same, leaving out the steps in which Enqueue stores the job
C17_Redelivery ==
  [][(\A j \in JobIds : pstate'[j] = pstate[j]) => \A id \in Ids : SetOnce(id)]_vars

\* the same for the in-process backend alone
C17_InProcess ==
  /\ [][backend = "mem" => \A id \in Ids : SetOnce(id)]_vars
  /\ [](\A id \in Ids : (backend = "mem" /\ Status(id).found) => Ordered(Status(id).job))

\* ------------------------------------------------------------------ C18
\* the fields of job.Job that change, in the order json.Encode reads them
Fields == <<"status", "error", "started", "finished">>

\* the request has read every field
Whole(r) == r # NoJob /\ DOMAIN r = {"id"} \cup {Fields[i] : i \in 1..Len(Fields)}

\* the field the request reads next
NextField(r) == Fields[CHOOSE i \in 1..Len(Fields) : Fields[i] \notin DOMAIN r /\ \A k \in 1..(i - 1) : Fields[k] \in DOMAIN r]

\* r with field f set to v
With(r, f, v) == [k \in DOMAIN r \cup {f} |-> IF k = f THEN v ELSE r[k]]

\* getJob: j, ok := h.Q.Status(ctx, id) finds the job and gives a pointer to it
GetJob(id) ==
  /\ snap = NoJob \/ Whole(snap)
  /\ Status(id).found
  /\ snap' = [id |-> id]
  /\ UNCHANGED <<backend, clock, obj, pstate, ctxDone, nstarted, closing, closed,
                 buf, mjobs, pc, cur, lj, lnow, herr, rexp,
                 stream, lastDel, pel, dl, cache, kpc, ktodo, kmsg, ended, late, erred, rret, order, sub>>

\* json.NewEncoder(w).Encode(j) reads the next field through the pointer
GetJobEncode ==
  /\ snap # NoJob /\ ~Whole(snap)
  /\ snap' = With(snap, NextField(snap), obj[JobIx(snap.id)][NextField(snap)])
  /\ UNCHANGED <<backend, clock, obj, pstate, ctxDone, nstarted, closing, closed,
                 buf, mjobs, pc, cur, lj, lnow, herr, rexp,
                 stream, lastDel, pel, dl, cache, kpc, ktodo, kmsg, ended, late, erred, rret, order, sub>>

\* the in-process queue serving getJob requests while its workers run
ReadInit == Init /\ backend = "mem"

ReadNext ==
  \/ Tick
  \/ CancelCtx
  \/ MemNext
  \/ \E id \in Ids : GetJob(id)
  \/ GetJobEncode

ReadSpec == ReadInit /\ [][ReadNext]_vars

\* C18: in every snapshot read through Status, at every interleaving point of
\* a worker's updates, a non-empty error comes with status failed.
C18_ErrorImpliesFailed ==
  Whole(snap) => (snap.error # "" => snap.status = "failed")

\* the same for the record the map holds at one instant (both backends)
C18_AtOneInstant ==
  \A id \in Ids :
    Status(id).found => (Status(id).job.error # "" => Status(id).job.status = "failed")

\* ------------------------------------------------------------------ C20
\* entries that something other than Enqueue puts on the stream: one without
\* a data field, one whose data is not a job
Foreign == {[id |-> 0], [id |-> 0, data |-> Garbage]}

\* XADD by another writer
ForeignAdd(m) ==
  /\ backend = "redis"
  /\ Len(stream) < MaxStream
  /\ stream' = XAdd(stream, m)
  /\ UNCHANGED <<lifeVars, clock, obj, pstate, memVars, pc, cur, herr, rexp,
                 lastDel, pel, dl, cache, claimerVars, lj, ended, late, snap, erred, rret, order, sub>>

\* XReadGroup returns the next never-delivered entry, now pending, and
\* processMessage finds no data or cannot unmarshal it
RReadBad(c) ==
  /\ backend = "redis"
  /\ pc[c] = "read"
  /\ ~ctxDone
  /\ lastDel < Len(stream)
  /\ ~WellFormed(lastDel + 1)
  /\ lastDel' = lastDel + 1
  /\ pel' = [pel EXCEPT ![lastDel + 1] = Delivered]
  /\ cur' = [cur EXCEPT ![c] = lastDel + 1]
  /\ pc' = [pc EXCEPT ![c] = "drop"]
  /\ UNCHANGED <<lifeVars, clock, obj, pstate, memVars, herr, rexp,
                 stream, dl, cache, claimerVars, lj, ended, late, snap, erred, rret, order, sub>>

\* XClaim returns such an entry, and RetryCount is at most 3:
\* go q.processMessage(ctx, msg, handler, 0) finds no data or cannot unmarshal it
KClaimBad(g) ==
  /\ backend = "redis"
  /\ kpc = "claim"
  /\ ~ctxDone
  /\ LET p == Head(ktodo)
     IN /\ Pending(p.eid) /\ IdleEnough(p.eid)
        /\ ~Exhausted(p)
        /\ ~WellFormed(p.eid)
        /\ pel' = [pel EXCEPT ![p.eid] = Claimed(@)]
        /\ cur' = [cur EXCEPT ![g] = p.eid]
  /\ pc[g] = "off"
  /\ \A h \in Gors : h < g => pc[h] # "off"
  /\ pc' = [pc EXCEPT ![g] = "drop"]
  /\ kpc' = KAfter
  /\ ktodo' = Tail(ktodo)
  /\ UNCHANGED <<lifeVars, clock, obj, pstate, memVars, herr, rexp,
                 stream, lastDel, dl, cache, kmsg, lj, ended, late, snap, erred, rret, order, sub>>

\* slog.Error(...); q.ackMessage(ctx, msg.ID); return
PmDrop(p) ==
  /\ backend = "redis"
  /\ pc[p] = "drop"
  /\ pel' = AckMessage(pel, cur[p])
  /\ pc' = [pc EXCEPT ![p] = AfterRun(p)]
  /\ cur' = [cur EXCEPT ![p] = 0]
  /\ erred' = erred \ {p}
  /\ UNCHANGED <<lifeVars, clock, obj, pstate, memVars, herr, rexp,
                 stream, lastDel, dl, cache, claimerVars, lj, ended, late, snap, rret, order, sub>>

\* the queue on a stream that other writers use too
PoisonNext ==
  \/ LiveNext
  \/ \E m \in Foreign : ForeignAdd(m)
  \/ \E c \in Workers : RReadBad(c)
  \/ \E g \in Gors : KClaimBad(g)
  \/ \E p \in Procs : PmDrop(p)

PoisonSpec == Init /\ [][PoisonNext]_vars

\* processMessage returns in this step from an entry it could not read
Dropped(p) == pc[p] = "drop" /\ pc'[p] = AfterRun(p) /\ nstarted' = nstarted

\* C20: a delivered entry without data, or with data that is no job, is
\* acknowledged and dropped: no handler runs for it, the cache is unchanged,
\* and when processMessage returns the entry is not pending (so that the
\* claimer, which claims pending entries only, cannot retry it).
C20_PoisonDropped ==
  /\ [](\A p \in Procs :
          (backend = "redis" /\ cur[p] # 0 /\ ~WellFormed(cur[p])) => pc[p] = "drop")
  /\ [][\A p \in Procs :
          Dropped(p) => (cache' = cache /\ ended' = ended /\ pel'[cur[p]] = NoJob)]_vars

\* the same when the consumers' context is not cancelled
C20_WithLiveContext ==
  /\ [](\A p \in Procs :
          (backend = "redis" /\ cur[p] # 0 /\ ~WellFormed(cur[p])) => pc[p] = "drop")
  /\ [][\A p \in Procs :
          (Dropped(p) /\ ~ctxDone) =>
            (cache' = cache /\ ended' = ended /\ pel'[cur[p]] = NoJob)]_vars

\* ------------------------------------------------------------------ C21
\* an entry is on the stream that no consumer has been given yet
Undelivered == lastDel < Len(stream)

\* C21: a consumer loop ends only with the parent context cancelled or Close
\* signalled; a read error takes it back to the top of its loop, and a
\* consumer whose reads have failed still gets the next entry to process
\* once the reads stop failing, unless the consumers are stopped.
C21_ReadErrorsSurvived ==
  /\ [][\A c \in Workers :
          /\ (pc[c] # "exited" /\ pc'[c] = "exited") => (ctxDone \/ closing)
          /\ (c \notin erred /\ c \in erred') => pc'[c] = "loop"]_vars
  /\ \A c \in Workers :
       (c \in erred /\ ConsumersRunning /\ Undelivered)
         ~> (pc[c] = "handler" \/ ~Undelivered \/ ~ConsumersRunning)

\* a consumer whose read failed is running the handler for the entry it
\* read afterwards
C21_Witness ==
  \E c \in Workers : c \in erred /\ pc[c] = "handler" /\ cur[c] # 0 /\ ~ctxDone /\ ~closing

\* ------------------------------------------------------------------ C22
\* worker w is through with a job whose handler returned an error
FailedRunEnds(w) ==
  cur[w] # 0 /\ cur'[w] = 0 /\ herr[w] = "err" /\ nstarted' = nstarted

\* the top of the worker's loop
LoopTop == IF backend = "mem" THEN "select" ELSE "loop"

\* the record worker w holds says failed and carries the error text
FailureRecorded(w) ==
  LET r == IF backend = "mem" THEN obj'[cur[w]] ELSE lj[w]
  IN r.status = "failed" /\ r.error # ""

XDel(s, i) == [k \in 1..(Len(s) - 1) |-> IF k < i THEN s[k] ELSE s[k + 1]]

\* the entry RetryDeadLetterJob writes: Values{"id": original_id, "data": data}
Requeued(rec) == [id |-> rec.original_id, data |-> rec.data]

\* XRange finds the record and its data is a string
Retriable(i) == i \in 1..Len(dl) /\ dl[i].data # NoJob

\* RetryDeadLetterJob(ctx, messageID) for the i-th dead-letter record.  out is
\* what the broker does: "fail" (XRange or XAdd returns an error), "nodel"
\* (XDel returns an error, which is only logged) or "ok"
RetryDeadLetterJob(i, out) ==
  /\ backend = "redis"
  /\ Len(rret) < MaxCalls
  /\ IF Retriable(i) /\ out # "fail"
       THEN /\ Len(stream) < MaxStream + MaxRetried
            /\ stream' = XAdd(stream, Requeued(dl[i]))
            /\ dl' = IF out = "ok" THEN XDel(dl, i) ELSE dl
            /\ rret' = Append(rret, [id |-> i, err |-> "nil"])
       ELSE /\ rret' = Append(rret, [id |-> i, err |-> "error"])
            /\ UNCHANGED <<stream, dl>>
  /\ UNCHANGED <<lifeVars, clock, obj, pstate, memVars, pc, cur, herr, rexp,
                 lastDel, pel, cache, claimerVars, lj, ended, late, snap, erred, order, sub>>

\* the queue with an operator who requeues dead-lettered jobs
RetryNext ==
  \/ LiveNext
  \/ \E i \in 1..2 : \E out \in {"fail", "nodel", "ok"} : RetryDeadLetterJob(i, out)

RetrySpec == Init /\ [][RetryNext]_vars

\* RetryDeadLetterJob returns in this step
RetryReturns == Len(rret') > Len(rret)

\* what it returns, and for which record
Returned == rret'[Len(rret')]

\* the stream has one more entry, carrying the data of record rec
Reappended(rec) ==
  /\ Len(stream') = Len(stream) + 1
  /\ stream'[Len(stream')].data = rec.data
  /\ \A e \in 1..Len(stream) : stream'[e] = stream[e]

\* C24: when RetryDeadLetterJob returns nil, an entry with the record's data
\* has been appended to the main stream and the record is gone from the
\* dead-letter stream; when the record does not exist, has no string data
\* or the append fails, it returns an error and both streams are unchanged.
C24_RetryMovesRecord ==
  [][RetryReturns =>
       /\ Returned.err = "nil" =>
            /\ Retriable(Returned.id)
            /\ Reappended(dl[Returned.id])
            /\ Len(dl') = Len(dl) - 1
            /\ \A k \in 1..Len(dl') : dl'[k] # dl[Returned.id]
       /\ Returned.err = "error" => (stream' = stream /\ dl' = dl)
       /\ ~Retriable(Returned.id) => Returned.err = "error"]_vars

\* the same without the removal from the dead-letter stream
C24_RetryReappends ==
  [][RetryReturns =>
       /\ Returned.err = "nil" =>
            /\ Retriable(Returned.id)
            /\ Reappended(dl[Returned.id])
            /\ dl' \in {dl, XDel(dl, Returned.id)}
       /\ Returned.err = "error" => (stream' = stream /\ dl' = dl)
       /\ ~Retriable(Returned.id) => Returned.err = "error"]_vars

\* ------------------------------------------------------------------ C25
\* a queue that holds two jobs at a time: the in-process one runs up to
\* OrderWorkers workers, the stream one its consumers; no context is
\* cancelled, no deadline or idle time elapses, the process is not replaced
OrderNext ==
  \/ \E j \in JobIds : MemEnqueueCall(j, FALSE)
  \/ \E j \in JobIds : MemEnqueueSendUpTo(j, OrderCapacity)
  \/ \E j \in JobIds : MemEnqueueStore(j)
  \/ \E n \in 1..OrderWorkers : MemStartConsumers(n)
  \/ \E w \in 1..OrderWorkers : MemDequeue(w)
  \/ \E w \in 1..OrderWorkers : MemMarkRunning(w)
  \/ \E w \in 1..OrderWorkers : MemMarkStarted(w)
  \/ \E w \in 1..OrderWorkers : \E e \in {"nil", "err"} : MemHandlerReturn(w, e)
  \/ \E w \in 1..OrderWorkers : MemSetStatus(w)
  \/ \E w \in 1..OrderWorkers : MemSetError(w)
  \/ \E j \in JobIds : REnqueueAddUpTo(j, TRUE, OrderStream)
  \/ \E j \in JobIds : REnqueueStore(j)
  \/ \E n \in Workers : RStartConsumers(n)
  \/ \E c \in Workers : RLoopRead(c)
  \/ \E c \in Workers : RRead(c)
  \/ \E c \in Workers : RReadNil(c)
  \/ \E p \in Workers : \E e \in {"nil", "err"} : PmHandlerReturn(p, e)
  \/ \E p \in Workers : PmAck(p)

OrderSpec == Init /\ [][OrderNext]_vars

\* Enqueue accepted job a before job b
Before(a, b) ==
  \E i, k \in 1..Len(order) : i < k /\ order[i] = a /\ order[k] = b

\* job j has been taken from the buffer, or its entry delivered
Given(j) ==
  IF backend = "mem"
    THEN pstate[j] \in {"sent", "done"} /\ \A i \in 1..Len(buf) : buf[i] # j
    ELSE \E e \in EntriesOf(j) : e <= lastDel

\* job j has been marked running
MarkedRunning(j) ==
  IF backend = "mem"
    THEN pstate[j] \in {"sent", "done"} /\ obj[j].status \in {"running", "succeeded", "failed"}
    ELSE \E e \in EntriesOf(j) : e <= lastDel

\* C25 as stated: a job accepted before another is marked running no later
\* than the other.
C25_RunningInOrder ==
  \A a, b \in JobIds : (Before(a, b) /\ MarkedRunning(b)) => MarkedRunning(a)

\* C25 amended: a job accepted before another is taken from the buffer, or
\* delivered, no later than the other; the workers that took them mark them
\* running in either order.
C25_GivenInOrder ==
  \A a, b \in JobIds : (Before(a, b) /\ Given(b)) => Given(a)

\* two in-process workers hold two jobs that waited in the buffer together,
\* the later one already marked running and the earlier one not yet
C25_Witness ==
  /\ backend = "mem"
  /\ \E a, b \in JobIds : \E v, w \in 1..OrderWorkers :
       /\ Before(a, b) /\ cur[v] = a /\ cur[w] = b
       /\ obj[b].status = "running" /\ obj[a].status = "queued"

\* ------------------------------------------------------------------ C26
\* memQueue.Len: len(q.buf); RedisQueue.Len: the Pending count XInfoGroups
\* reports for the group
QueueLen ==
  IF backend = "mem"
    THEN Len(buf)
    ELSE Cardinality({e \in 1..Len(stream) : Pending(e)})

\* no Enqueue call is under way
NoEnqueueUnderWay == \A j \in JobIds : pstate[j] \in {"new", "done", "failed"}

\* no handler invocation for job j has returned
Unfinished(j) ==
  /\ ended[j] = {}
  /\ \A p \in Procs : Holds(p, j) => pc[p] \in {"mark", "stamp", "handler"}

\* C26: after k jobs have been accepted and none of them has finished
\* processing, Len() reports k (both backends).
C26_LenIsOutstanding ==
  (NoEnqueueUnderWay /\ \A j \in JobIds : Accepted(j) => Unfinished(j))
    => QueueLen = Cardinality({j \in JobIds : Accepted(j)})

\* the same for the in-process backend with no job taken by a worker yet
C26_LenIsWaiting ==
  (backend = "mem" /\ NoEnqueueUnderWay /\ \A j \in JobIds : Accepted(j) => ~Given(j))
    => QueueLen = Cardinality({j \in JobIds : Accepted(j)})

\* ------------------------------------------------------------------ C27
\* Enqueue returned j's identifier and nil, on this instance or on an earlier
\* one working on the same stream
EverAccepted(j) == pstate[j] \in {"done", "prev"}

\* job j waits for its first delivery: it is in the buffer, or its stream entry
\* is in nobody's pending list and no run or dead-lettering of j has ended
AwaitsDelivery(j) ==
  IF backend = "mem"
    THEN \E i \in 1..Len(buf) : buf[i] = j
    ELSE /\ EntriesOf(j) # {}
         /\ \A e \in EntriesOf(j) : ~Pending(e)
         /\ ended[j] = {}

\* C27: StartConsumers may be called before or after jobs are enqueued.  With
\* handlers that return, whenever the consumers run and an accepted job awaits
\* its first delivery (it was accepted before StartConsumers was called, on this
\* instance or on an earlier one whose stream the group reads from its
\* beginning, or it was accepted afterwards), the job is passed to the handler;
\* the obligation ends when the consumers are stopped.
C27_StartBeforeOrAfter ==
  HandlersReturn =>
    \A j \in JobIds :
      (ConsumersRunning /\ EverAccepted(j) /\ AwaitsDelivery(j))
        ~> (PassedToHandler(j) \/ ~ConsumersRunning)

\* a job accepted by an earlier instance and never picked up is with the handler
\* of a consumer of this instance
C27_Witness ==
  /\ backend = "redis"
  /\ \E j \in JobIds : \E c \in Workers :
       pstate[j] = "prev" /\ pc[c] = "handler" /\ Holds(c, j) /\ pel[cur[c]].count = 1

\* a job put in the buffer before the workers were started is with the handler
C27_InProcess ==
  /\ backend = "mem"
  /\ \E j \in JobIds : \E w \in Workers :
       Accepted(j) /\ pc[w] = "handler" /\ cur[w] = j /\ order = <<j>> /\ buf = <<>>

\* ------------------------------------------------------------------ C28
\* the processes whose handler invocation has not returned
InHandler == {p \in Procs : pc[p] = "handler"}

\* C28: after StartConsumers(n, handler) at most n handler invocations are in
\* progress at any time, in both backends, the invocations for reclaimed
\* stream entries included.
C28_AtMostNHandlers == Cardinality(InHandler) <= nstarted

\* the n workers or consumers themselves never run more than n invocations
C28_ConsumersBounded == Cardinality(InHandler \cap Workers) <= nstarted

\* ------------------------------------------------------------------ C29
\* a consumer or reprocessing goroutine is inside processMessage for entry e
BeingProcessed(e) == \E p \in Procs : cur[p] = e /\ pc[p] \in {"handler", "ack"}

\* the idle time of entry e reaches the claim timeout when no run holds e: the
\* maximum job duration is shorter than the claim timeout (30s and 60s by
\* default) and the handler returns when its context is cancelled
IdleElapseAfterRun(e) == ~BeingProcessed(e) /\ IdleElapse(e)

\* the stream backend with such a configuration and such handlers
TimedNext ==
  \/ CancelCtx
  \/ \E p \in Procs : DeadlineElapse(p)
  \/ \E j \in JobIds : \E ok \in BOOLEAN : REnqueueAdd(j, ok)
  \/ \E j \in JobIds : REnqueueStore(j)
  \/ \E n \in Workers : RStartConsumers(n)
  \/ \E c \in Workers : RLoopExit(c)
  \/ \E c \in Workers : RLoopRead(c)
  \/ \E c \in Workers : RRead(c)
  \/ \E c \in Workers : RReadNil(c)
  \/ \E c \in Workers : RReadErr(c)
  \/ \E p \in Procs : \E e \in {"nil", "err"} : PmHandlerReturn(p, e)
  \/ \E p \in Procs : PmAck(p)
  \/ \E e \in EntryIds : IdleElapseAfterRun(e)
  \/ KExit
  \/ KScan
  \/ KClaimNone
  \/ \E g \in Gors : KClaimRun(g)
  \/ KClaimDead
  \/ \E ok \in BOOLEAN : KDeadLetter(ok)
  \/ RCloseCall
  \/ RCloseReturn
  \/ Restart

TimedSpec == Init /\ [][TimedNext]_vars

\* the claimer's position shows it dead-lettering entry e
DeadLettering(e) == kpc = "dl" /\ kmsg # NoJob /\ kmsg.eid = e

\* C29 (first part): the claimer claims an entry, and so re-dispatches or
\* dead-letters it, only when the entry is pending and its idle time has
\* reached the claim timeout.
C29_IdleBeforeClaim ==
  [][\A e \in EntryIds :
       /\ Claims(e) => Pending(e) /\ pel[e].idle
       /\ (~Reprocessing(e) /\ Reprocessing(e)') => Claims(e)
       /\ (~DeadLettering(e) /\ DeadLettering(e)') => Claims(e)]_vars

ShareNext ==
  \/ \E j \in JobIds : MemEnqueueCall(j, FALSE)
  \/ \E j \in JobIds : MemEnqueueSendUpTo(j, OrderCapacity)
  \/ \E j \in JobIds : MemEnqueueStore(j)
  \/ \E n \in 1..OrderWorkers : MemStartConsumers(n)
  \/ \E w \in 1..OrderWorkers : MemDequeue(w)
  \/ \E w \in 1..OrderWorkers : MemMarkRunning(w)
  \/ \E w \in 1..OrderWorkers : MemMarkStarted(w)
  \/ \E w \in 1..OrderWorkers : \E e \in {"nil", "err"} : MemHandlerReturn(w, e)
  \/ \E w \in 1..OrderWorkers : MemSetStatus(w)
  \/ \E w \in 1..OrderWorkers : MemSetError(w)
  \/ \E j \in JobIds : REnqueueAddUpTo(j, TRUE, OrderStream)
  \/ \E j \in JobIds : REnqueueStore(j)
  \/ \E n \in 1..OrderWorkers : RStartConsumers(n)
  \/ \E c \in 1..OrderWorkers : RLoopRead(c)
  \/ \E c \in 1..OrderWorkers : RRead(c)
  \/ \E c \in 1..OrderWorkers : RReadNil(c)
  \/ \E p \in Procs : \E e \in {"nil", "err"} : PmHandlerReturn(p, e)
  \/ \E p \in Procs : PmAck(p)
  \/ \E e \in EntryIds : IdleElapse(e)
  \/ KScan
  \/ KClaimNone
  \/ \E g \in Gors : KClaimRun(g)
  \/ KClaimDead
  \/ \E ok \in BOOLEAN : KDeadLetter(ok)
  \/ Restart

ShareSpec == Init /\ [][ShareNext]_vars

\* process p passes x (a job, or a stream entry) to the handler in this step
Starts(p, x) == pc[p] # "handler" /\ pc'[p] = "handler" /\ cur'[p] = x

\* how many places hold job j of the in-process backend: buffer slots, workers
\* and the record of an ended run
Places(j) ==
  Cardinality({i \in 1..Len(buf) : buf[i] = j})
    + Cardinality({w \in Procs : cur[w] = j})
    + (IF ended[j] # {} THEN 1 ELSE 0)

\* consumer p gets entry e as a new entry: nobody was given e before
FirstDelivery(p, e) ==
  /\ p <= nstarted
  /\ pc[p] = "read"
  /\ e = lastDel + 1 /\ lastDel' = e
  /\ ~Pending(e)
  /\ ended[JobOf(e)] = {}
  /\ \A q \in Procs : cur[q] # e

\* a goroutine of the claimer gets entry e, which stayed unacknowledged for the
\* claim timeout
Redelivery(p, e) ==
  /\ p > nstarted
  /\ Claims(e)
  /\ pel[e].idle

\* C30: no job is processed twice in normal operation.  In-process backend: a
\* job sent to the buffer is in one place only (the buffer, one worker, or
\* done with), and the handler is invoked for it by one worker, once.  Stream
\* backend: a consumer is given an entry only as a new entry, which nobody was
\* given before, and every other handler invocation for an entry comes from
\* the claimer, for an entry left unacknowledged for the claim timeout.
C30_NoDuplicateProcessing ==
  /\ [](backend = "mem" =>
          \A j \in JobIds : pstate[j] \in {"sent", "done"} => Places(j) = 1)
  /\ [][backend = "mem" =>
          \A j \in JobIds : \A w \in Procs :
            Starts(w, j) => ended[j] = {} /\ \A v \in Procs \ {w} : cur[v] # j]_vars
  /\ [][backend = "redis" =>
          \A e \in EntryIds : \A p \in Procs :
            Starts(p, e) => FirstDelivery(p, e) \/ Redelivery(p, e)]_vars

\* two consumers run the handler at the same time, each on its own entry
C30_Witness ==
  /\ backend = "redis" /\ nstarted = 2
  /\ pc[1] = "handler" /\ pc[2] = "handler"
  /\ cur[1] # cur[2]

\* two workers of the in-process backend run the handler at the same time
C30_InProcess ==
  /\ backend = "mem" /\ nstarted = 2
  /\ pc[1] = "handler" /\ pc[2] = "handler"
  /\ cur[1] # cur[2]

\* the second invocation for an entry runs beside the consumer's first one
C30_SecondInvocation ==
  /\ backend = "redis" /\ nstarted = 1
  /\ pc[1] = "handler" /\ pc[2] = "handler"
  /\ cur[1] = cur[2]

\* ------------------------------------------------------------------ C31
\* processMessage returns in process p after the handler returned
ProcessReturns(p) ==
  /\ pc[p] = "ack" /\ pc'[p] = AfterRun(p)
  /\ nstarted' = nstarted

\* C31: whenever a handler invocation returns, with success or with an error
\* (an error caused by the cancellation of the parent context included), the
\* entry is acknowledged: it is no longer pending when processMessage returns.
C31_AckedOnReturn ==
  [][\A p \in Procs : ProcessReturns(p) => pel'[cur[p]] = NoJob]_vars

\* with a parent context that is not cancelled the entry is acknowledged when
\* processMessage returns
C31_WithLiveContext ==
  [][\A p \in Procs : (ProcessReturns(p) /\ ~ctxDone) => pel'[cur[p]] = NoJob]_vars

\* ------------------------------------------------------------------ C32
\* C32: stream backend: once Enqueue has returned for job j and a consumer of
\* the same instance has finished processing it, Status(id) reports the
\* terminal status, whatever the interleaving of Enqueue's cache write with
\* the consumer's cache writes.
C32_TerminalAfterProcessing ==
  \A j \in JobIds :
    (backend = "redis" /\ Accepted(j) /\ HandlerReturned(j)) => TerminalVisible(j)

\* ------------------------------------------------------------------ C33
\* the place of a status in the lifecycle queued -> running -> succeeded | failed
Rank(st) ==
  CASE st = "queued" -> 0
    [] st = "running" -> 1
    [] OTHER -> 2

\* Status(id) finds a job before and after this step of the same process
SeenTwice(id) == Status(id).found /\ Status(id)'.found /\ nstarted' >= nstarted

\* C33: for every job identifier the statuses observable through Status follow
\* the lifecycle queued -> running -> (succeeded | failed): the status never
\* moves backwards, in both backends and with stream-backend redelivery.
C33_LifecycleForward ==
  [][\A id \in Ids :
       SeenTwice(id) => Rank(Status(id).job.status) <= Rank(Status(id)'.job.status)]_vars

\* the same apart from the cache write at the end of Enqueue
C33_ApartFromEnqueue ==
  [][\A id \in Ids :
       (SeenTwice(id) /\ pstate' = pstate) =>
         Rank(Status(id).job.status) <= Rank(Status(id)'.job.status)]_vars

\* the in-process backend keeps to the lifecycle
C33_InProcess ==
  [][\A id \in Ids :
       (SeenTwice(id) /\ backend = "mem") =>
         Rank(Status(id).job.status) <= Rank(Status(id)'.job.status)]_vars

\* ------------------------------------------------------------------ C34
\* a job record whose fields belong to one moment of the lifecycle
Coherent(r) ==
  /\ r.finished # <<>> => r.status \in {"succeeded", "failed"}
  /\ r.status = "failed" => r.error # ""
  /\ r.status = "running" => (r.started # <<>> /\ r.finished = <<>>)

\* C34: a Status reader running concurrently with a worker never observes a
\* torn snapshot: finished is set only with status succeeded or failed, status
\* failed comes with the error, status running comes with started set and
\* finished nil.
C34_NoTornSnapshot == Whole(snap) => Coherent(snap)

\* the same for the record the map of the in-process backend points to, read
\* at one instant
C34_AtOneInstant ==
  \A id \in Ids : (backend = "mem" /\ Status(id).found) => Coherent(Status(id).job)

\* ------------------------------------------------------------------ C35
\* the number of the delivery that a handler invocation starting in this step
\* belongs to
DeliveryNumber(e) == IF Pending(e) THEN pel[e].count + 1 ELSE 1

\* C35: stream backend: the handler is invoked at most 4 times for a stream
\* entry.  Every invocation belongs to one delivery of the entry, the
\* deliveries are numbered 1 (the first delivery), 2, 3, 4 (the reclaims that
\* observed a count of 1, 2 and 3) by the broker's delivery counter, and the
\* claim that observes a count of 4 dead-letters the entry and starts no
\* invocation.
C35_AtMostFourInvocations ==
  /\ [][\A e \in EntryIds : \A p \in Procs :
          (backend = "redis" /\ Starts(p, e)) =>
            /\ pel'[e] # NoJob
            /\ pel'[e].count = DeliveryNumber(e)
            /\ pel'[e].count <= MaxRetries + 1]_vars
  /\ [][\A e \in EntryIds :
          (Claims(e) /\ Head(ktodo).count > MaxRetries) =>
            (kpc' = "dl" /\ \A p \in Procs : ~Starts(p, e))]_vars
  /\ [][\A e \in EntryIds :
          (Claims(e) /\ Head(ktodo).count <= MaxRetries) =>
            (\E g \in Gors : Starts(g, e))]_vars

\* the fourth invocation for an entry is running
C35_Witness ==
  /\ backend = "redis"
  /\ \E e \in EntryIds : Pending(e) /\ pel[e].count = MaxRetries + 1 /\ Reprocessing(e)

\* the entry was dead-lettered after its fourth invocation was lost
C35_DeadLettered ==
  /\ backend = "redis"
  /\ \E e \in 1..Len(stream) : InDeadLetter(e) /\ ~Pending(e)

\* ------------------------------------------------------------------ C36
\* the jobs of an in-process queue whose handler enqueues a follow-up job: one
\* more than elsewhere, to have a job with the handler, a full buffer and a
\* follow-up
NestJobs == MaxJobs + 1

NestInit ==
  /\ obj = [j \in 1..NestJobs |-> NewJob(j)]
  /\ ConstructedFor(1..NestJobs)
  /\ backend = "mem"

\* the handler calls h.queue.Enqueue(ctx, gptJob) with its job context: Enqueue
\* up to the select
HandlerEnqueueCall(w, j) ==
  /\ backend = "mem"
  /\ pc[w] = "handler"
  /\ sub[w] = 0
  /\ NextToCall(j)
  /\ obj' = [obj EXCEPT ![j] = Stamp(obj[j], j)]
  /\ pstate' = [pstate EXCEPT ![j] = "sending"]
  /\ sub' = [sub EXCEPT ![w] = j]
  /\ UNCHANGED <<lifeVars, clock, memVars, pc, cur, herr, rexp, redisVars, ended, late, snap, erred, rret, order>>

\* an Enqueue called with the context given to StartConsumers
HandlerEnqueueCancel_ParentCtx(w) ==
  /\ backend = "mem"
  /\ sub[w] # 0
  /\ pstate[sub[w]] = "sending"
  /\ ctxDone
  /\ pstate' = [pstate EXCEPT ![sub[w]] = "failed"]
  /\ sub' = [sub EXCEPT ![w] = 0]
  /\ UNCHANGED <<lifeVars, clock, obj, memVars, pc, cur, herr, rexp, redisVars, ended, late, snap, erred, rret, order>>

\* the handler's Enqueue: case <-ctx.Done(): return uuid.Nil, ctx.Err(), ctx
\* being the run context of the job
HandlerEnqueueCancel(w) ==
  /\ backend = "mem"
  /\ sub[w] # 0
  /\ pstate[sub[w]] = "sending"
  /\ RunCtxDone(w)
  /\ pstate' = [pstate EXCEPT ![sub[w]] = "failed"]
  /\ sub' = [sub EXCEPT ![w] = 0]
  /\ UNCHANGED <<lifeVars, clock, obj, memVars, pc, cur, herr, rexp, redisVars, ended, late, snap, erred, rret, order>>

\* the handler's Enqueue returns the identifier and nil
HandlerEnqueueReturn(w) ==
  /\ backend = "mem"
  /\ sub[w] # 0
  /\ pstate[sub[w]] = "done"
  /\ sub' = [sub EXCEPT ![w] = 0]
  /\ UNCHANGED <<lifeVars, clock, obj, pstate, memVars, pc, cur, herr, rexp, redisVars, ended, late, snap, erred, rret, order>>

\* the handler returns; it cannot while it is inside Enqueue
HandlerReturn(w, e) == sub[w] = 0 /\ MemHandlerReturn(w, e)

NestNext ==
  \/ CancelCtx
  \/ \E w \in Workers : DeadlineElapse(w)
  \/ \E j \in 1..NestJobs : MemEnqueueCall(j, FALSE)
  \/ \E j \in 1..NestJobs : MemEnqueueSend(j)
  \/ \E j \in 1..NestJobs : MemEnqueueStore(j)
  \/ \E n \in Workers : MemStartConsumers(n)
  \/ \E w \in Workers : MemWorkerExit(w)
  \/ \E w \in Workers : MemDequeue(w)
  \/ \E w \in Workers : MemMarkRunning(w)
  \/ \E w \in Workers : MemMarkStarted(w)
  \/ \E w \in Workers : \E j \in 1..NestJobs : HandlerEnqueueCall(w, j)
  \/ \E w \in Workers : HandlerEnqueueCancel(w)
  \/ \E w \in Workers : HandlerEnqueueReturn(w)
  \/ \E w \in Workers : \E e \in {"nil", "err"} : HandlerReturn(w, e)
  \/ \E w \in Workers : MemSetStatus(w)
  \/ \E w \in Workers : MemSetError(w)

\* the scheduler runs every goroutine that can take a step, the timer of the
\* run context fires, and the handler returns when it is not inside Enqueue
NestFairness ==
  /\ \A j \in 1..NestJobs : WF_vars(MemEnqueueStore(j))
  /\ \A w \in Workers :
       /\ WF_vars(DeadlineElapse(w))
       /\ WF_vars(MemDequeue(w))
       /\ WF_vars(MemMarkRunning(w))
       /\ WF_vars(MemMarkStarted(w))
       /\ WF_vars(HandlerEnqueueCancel(w))
       /\ WF_vars(HandlerEnqueueReturn(w))
       /\ WF_vars(\E e \in {"nil", "err"} : HandlerReturn(w, e))
       /\ WF_vars(MemSetStatus(w))
       /\ WF_vars(MemSetError(w))

NestSpec == NestInit /\ [][NestNext]_vars /\ NestFairness

\* worker w is blocked in its handler's Enqueue: the buffer is full
Blocked(w) ==
  /\ pc[w] = "handler"
  /\ sub[w] # 0
  /\ pstate[sub[w]] = "sending"
  /\ Len(buf) = Capacity

\* every worker is blocked so
AllBlocked == nstarted > 0 /\ \A w \in 1..nstarted : Blocked(w)

\* the Enqueue of w's handler returns a cancellation error in this step
CancelledReturn(w) ==
  /\ sub[w] # 0 /\ sub'[w] = 0
  /\ pstate'[sub[w]] = "failed"
  /\ RunCtxDone(w)

\* C36: in-process backend: a handler that enqueues a follow-up job with its
\* job context cannot block its worker for ever.  When the buffer is full and
\* every worker is blocked in such an Enqueue, nothing moves until an Enqueue
\* returns a cancellation error, which it does once the run context is done
\* (the maximum job duration has elapsed); the worker then comes back to its
\* select and dequeues again.
C36_NestedEnqueueUnblocks ==
  /\ [][(AllBlocked /\ ~AllBlocked') => \E w \in Workers : CancelledReturn(w)]_vars
  /\ \A w \in Workers : (AllBlocked /\ Blocked(w)) ~> (sub[w] = 0 /\ pc[w] = "select")

\* the Enqueue of a handler has returned a cancellation error after the job
\* deadline, the buffer being full, and the handler goes on
C36_Witness ==
  /\ backend = "mem" /\ ~ctxDone
  /\ Len(buf) = Capacity
  /\ \E w \in Workers : \E j \in 1..NestJobs :
       pc[w] = "handler" /\ rexp[w] /\ sub[w] = 0 /\ pstate[j] = "failed"

\* the worker is back at its select afterwards
C36_Resumed ==
  /\ backend = "mem" /\ ~ctxDone
  /\ Len(buf) = Capacity
  /\ \E w \in Workers : \E j \in 1..NestJobs : pc[w] = "select" /\ pstate[j] = "failed"

\* every worker is blocked in its handler's Enqueue and the deadline has passed
C36_Deadlocked == AllBlocked /\ \A w \in 1..nstarted : rexp[w]

\* ------------------------------------------------------------------ C37
\* besides Fairness: a consumer at its select takes the case that is ready, the
\* blocking read returns after its 5s when nothing arrives, the claimer takes
\* the ready case of its select, and wg.Wait returns when the counter is zero
CloseFairness ==
  /\ Fairness
  /\ \A c \in Workers : WF_vars(RLoopExit(c)) /\ WF_vars(RReadNil(c))
  /\ WF_vars(KExit)
  /\ WF_vars(RCloseReturn)

CloseSpec == Init /\ [][LiveNext]_vars /\ CloseFairness

\* C37: stream backend: Close eventually returns, provided every handler
\* invocation returns: each consumer sees the close signal after at most one
\* blocking read and its current job, the claimer at its next select (the
\* obligation ends if the process ends first).
C37_CloseReturns ==
  HandlersReturn =>
    ((backend = "redis" /\ closing) ~> (closed \/ ~closing))

\* Close has returned after the consumers and the claimer, started earlier and
\* with a live context, have exited, a job having been processed
C37_Witness ==
  /\ backend = "redis" /\ closed /\ ~ctxDone
  /\ nstarted > 0
  /\ \A c \in 1..nstarted : pc[c] = "exited"
  /\ kpc = "exited"
  /\ \E j \in JobIds : ended[j] # {}

\* ------------------------------------------------------------------ C38
\* a worker takes a job from the buffer in this step
Dequeues(w) == pc[w] = "select" /\ pc'[w] = "mark" /\ Len(buf') < Len(buf)

\* C38: in-process backend: once the context passed to StartConsumers has
\* been cancelled no worker starts a new job: the jobs in the buffer stay
\* there, queued.
C38_NoNewJobAfterCancel ==
  [][(backend = "mem" /\ ctxDone) =>
       /\ \A w \in Workers : ~Dequeues(w)
       /\ \A i \in 1..Len(buf) :
            /\ \E k \in 1..Len(buf') : buf'[k] = buf[i]
            /\ obj'[buf[i]].status = "queued"]_vars

====
